---- MODULE Spec2Model ----
(***************************************************************************)
(* Combat core of wukong-survivors: attack modules (game/weapon.ts), the   *)
(* synergy evaluator (game/weapon.ts), adversaries and their spawner       *)
(* (game/enemy.ts) and the experience pickups (game/experience.ts).        *)
(*                                                                         *)
(* Units: time in milliseconds; health and damage in fifths of a point     *)
(* (HP), so that the x0.2 tick damage of GoldenRopeImmortal is integral;   *)
(* speed in thousandths of a pixel per second (the x0.3, x0.5, x0.2        *)
(* debuffs stay integral); synergy bonuses in hundredths.                  *)
(***************************************************************************)
EXTENDS Integers, Sequences, FiniteSets, TLC

VARIABLES
    weapons,          \* WeaponManager.weapons: sequence of Weapon records
    activeSynergies,  \* WeaponSynergyManager.activeSynergies: set of rule ids
    synChecked,       \* what the last checkSynergies call was handed and found active
    now,              \* scene clock (ms)
    player,           \* external Player: health, maxHealth, experience
    staticType,       \* the static Weapon.type, written by every constructor
    upgradeCalls,     \* number of Weapon.upgrade() calls made so far
    lastUpdate,       \* record of the last Weapon.update call
    offer,            \* what the last step's getUpgradeOptions() call returned
    sprites,          \* live orb and sword sprites of the scene, by container
    enemy,            \* heap of Enemy objects: id -> record
    roster,           \* EnemySpawner.enemies: sequence of Enemy ids
    gems,             \* experience pickups spawned and not yet removed
    gemsSpawned,      \* number of pickups ever spawned (gives each pickup its id)
    timers,           \* scene.time / scene.tweens: pending callbacks, insertion order
    timerCount,       \* number of timer events ever created (gives each its id)
    tdLog,            \* the takeDamage calls of the last step, in call order
    directHits,       \* number of collision hits delivered so far
    spawner,          \* EnemySpawner scalar fields
    spawnLog,         \* record of the last EnemySpawner.update call
    xpLog,            \* addExperience calls made so far: sequence of gem ids
    scene,            \* GameScene: positions, projectile sprites, kill counters
    save              \* useSaveStore: totalGold, the permanent upgrade levels

synVars    == <<activeSynergies, synChecked>>
weaponVars == <<weapons, staticType, upgradeCalls, lastUpdate, offer, sprites>>
combatVars == <<enemy, roster, timers, timerCount, tdLog, directHits>>
spawnVars  == <<spawner, spawnLog>>
pickVars   == <<gems, gemsSpawned, xpLog>>
vars == <<weapons, activeSynergies, synChecked, now, player, staticType,
          upgradeCalls, lastUpdate, enemy, roster, gems, gemsSpawned, timers,
          timerCount, tdLog, directHits, spawner, spawnLog, xpLog, offer,
          sprites, scene, save>>

----------------------------------------------------------------------------
(* Bounds of the model                                                     *)

MaxWeapons == 3       \* roster length explored by the synergy specification
MaxUpgradeCalls == 6  \* upgrade() calls explored (more than maxLevel - 1)

----------------------------------------------------------------------------
(* Small helpers                                                           *)

Min(a, b) == IF a < b THEN a ELSE b
Max(a, b) == IF a > b THEN a ELSE b

Includes(seq, x) == \E i \in 1..Len(seq) : seq[i] = x

SeqToSet(seq) == {seq[i] : i \in 1..Len(seq)}

\* scaleManager.scaleValue as the test suite fixes it: (value) => value
ScaleValue(v) == v

\* health and damage are kept in fifths of a point
HP(v) == 5 * v

\* speeds are kept in thousandths
Speed(v) == 1000 * v

----------------------------------------------------------------------------
(* Weapon: base class and the concrete kinds modelled                      *)

\* Weapon.constructor: level 1, maxLevel 5, lastFired 0, then the subclass
\* constructor's tunables (record t)
NewWeapon(type, damage, coolDown, t) ==
    [type |-> type, level |-> 1, maxLevel |-> 5, damage |-> HP(damage),
     coolDown |-> coolDown, lastFired |-> 0, t |-> t]

GoldenStaff == NewWeapon("golden_staff", 15, 1000,
    [projectileSpeed |-> 300, piercing |-> 1])
FireproofCloak == NewWeapon("fireproof_cloak", 8, 100,
    [orbCount |-> 1, radius |-> ScaleValue(80), rotationSpeed |-> 2, orbs |-> 1])
FireLance == NewWeapon("fire_lance", 20, 1200,
    [projectileSpeed |-> 500, piercing |-> 2])
WindTamer == NewWeapon("wind_tamer", 25, 2000,
    [orbCount |-> 1, radius |-> ScaleValue(60), damageRadius |-> 100, orbs |-> 1])
Mace == NewWeapon("mace", 35, 1800,
    [projectileSpeed |-> 250, stunChance |-> 30])
ThunderDrum == NewWeapon("thunder_drum", 22, 1600, [strikeCount |-> 3])
WindFireWheels == NewWeapon("wind_fire_wheels", 28, 100,
    [orbCount |-> 2, radius |-> ScaleValue(70), rotationSpeed |-> 4, orbs |-> 2])
NineRingStaff == NewWeapon("nine_ring_staff", 30, 1700,
    [soundWaveRadius |-> ScaleValue(150), stunDuration |-> 1000])
GinsengFruit == NewWeapon("ginseng_fruit", 15, 5000,
    [healAmount |-> 20, maxHealthBonus |-> 0])
HeavenEarthCircle == NewWeapon("heaven_earth_circle", 40, 1800,
    [circleSpeed |-> 450, returnDelay |-> 1000])
RedArmillarySash == NewWeapon("red_armillary_sash", 28, 1400,
    [sashLength |-> ScaleValue(200), whipCount |-> 3])
PurpleGoldGourd == NewWeapon("purple_gold_gourd", 35, 3500,
    [absorbRadius |-> ScaleValue(180), absorbDuration |-> 2000])
GoldenRopeImmortal == NewWeapon("golden_rope_immortal", 26, 1600,
    [ropeChains |-> 3, chainLength |-> ScaleValue(250)])
SevenStarSword == NewWeapon("seven_star_sword", 24, 100,
    [swordCount |-> 3, orbitRadius |-> ScaleValue(90), swords |-> 3])
\* two kinds that only fire in this model (their upgrades are left out)
TwinBlades == NewWeapon("twin_blades", 18, 800, [projectileSpeed |-> 450])
CrescentBlade == NewWeapon("crescent_blade", 33, 1500,
    [bladeCount |-> 2, returnSpeed |-> 350])

\* WEAPON_MAP restricted to the kinds whose upgrades are modelled: kind ->
\* freshly constructed module
WEAPON_MAP ==
    [golden_staff |-> GoldenStaff, fireproof_cloak |-> FireproofCloak,
     fire_lance |-> FireLance, wind_tamer |-> WindTamer, mace |-> Mace,
     thunder_drum |-> ThunderDrum, wind_fire_wheels |-> WindFireWheels,
     nine_ring_staff |-> NineRingStaff, ginseng_fruit |-> GinsengFruit,
     heaven_earth_circle |-> HeavenEarthCircle,
     red_armillary_sash |-> RedArmillarySash,
     purple_gold_gourd |-> PurpleGoldGourd,
     golden_rope_immortal |-> GoldenRopeImmortal,
     seven_star_sword |-> SevenStarSword]

----------------------------------------------------------------------------
(* Synergy evaluator                                                       *)

NoEffects ==
    [damageBonus |-> 0, attackSpeedBonus |-> 0, rangeBonus |-> 0,
     critRateBonus |-> 0, critDamageBonus |-> 0, armorBonus |-> 0,
     allStatsBonus |-> 0, healthRegenBonus |-> 0, controlDurationBonus |-> 0]

Synergy(id, ws, effects) == [id |-> id, weapons |-> ws, effects |-> effects]

\* the static rule table, bonuses in hundredths (0.3 -> 30, armor 10 -> 1000)
WEAPON_SYNERGIES == <<
    Synergy("fire_combo", <<"fire_lance", "wind_fire_wheels">>,
            [NoEffects EXCEPT !.damageBonus = 30]),
    Synergy("staff_master", <<"golden_staff", "ruyi_staff", "sea_calming_needle">>,
            [NoEffects EXCEPT !.attackSpeedBonus = 30]),
    Synergy("storm_power", <<"wind_tamer", "plantain_fan">>,
            [NoEffects EXCEPT !.rangeBonus = 50]),
    Synergy("blade_resonance", <<"three_pointed_blade", "seven_star_sword">>,
            [NoEffects EXCEPT !.critRateBonus = 15]),
    Synergy("buddhist_guardian", <<"nine_ring_staff", "mace">>,
            [NoEffects EXCEPT !.armorBonus = 1000]),
    Synergy("heavy_weapons_master", <<"crescent_blade", "iron_cudgel">>,
            [NoEffects EXCEPT !.controlDurationBonus = 50]),
    Synergy("immortal_protection", <<"ginseng_fruit">>,
            [NoEffects EXCEPT !.healthRegenBonus = 500]),
    Synergy("nezha_trinity",
            <<"heaven_earth_circle", "red_armillary_sash", "wind_fire_wheels">>,
            [NoEffects EXCEPT !.allStatsBonus = 10]),
    Synergy("binding_mastery", <<"golden_rope", "golden_rope_immortal">>,
            [NoEffects EXCEPT !.controlDurationBonus = 50]),
    Synergy("absorption_master", <<"purple_gold_gourd", "jade_purity_bottle">>,
            [NoEffects EXCEPT !.damageBonus = 25]),
    Synergy("weakness_detection", <<"demon_revealing_mirror">>,
            [NoEffects EXCEPT !.critDamageBonus = 30])
>>

SynergyIds == {WEAPON_SYNERGIES[i].id : i \in 1..Len(WEAPON_SYNERGIES)}

\* weapons.map((w) => w.type)
WeaponTypes(ws) == [i \in 1..Len(ws) |-> ws[i].type]

\* mutant of SynergyHolds: a rule holds only for a roster of its own kinds
SynergyHolds_onlyItsKinds(synergy, weaponTypes) ==
    /\ \A j \in 1..Len(synergy.weapons) : Includes(weaponTypes, synergy.weapons[j])
    /\ \A j \in 1..Len(weaponTypes) : Includes(synergy.weapons, weaponTypes[j])

\* the condition of checkSynergies for one rule, on the list of kinds
SynergyHolds(synergy, weaponTypes) ==
    LET hasAllWeapons ==
            \A j \in 1..Len(synergy.weapons) : Includes(weaponTypes, synergy.weapons[j])
        isSingleWeaponSynergy == Len(synergy.weapons) = 1
        hasSingleWeapon ==
            isSingleWeaponSynergy /\ Includes(weaponTypes, synergy.weapons[1])
    IN  hasAllWeapons
        \/ (isSingleWeaponSynergy /\ hasSingleWeapon /\ Len(weaponTypes) > 1)

\* mutant of checkSynergies: the active set is not cleared before the rules are added
checkSynergies_noClear(prev, weaponTypes) ==
    prev \cup {WEAPON_SYNERGIES[i].id : i \in
                 {j \in 1..Len(WEAPON_SYNERGIES) :
                    SynergyHolds(WEAPON_SYNERGIES[j], weaponTypes)}}

\* mutant of checkSynergies: some required kind suffices instead of every one
checkSynergies_some(prev, weaponTypes) ==
    {WEAPON_SYNERGIES[i].id : i \in
       {j \in 1..Len(WEAPON_SYNERGIES) :
          \E k \in 1..Len(WEAPON_SYNERGIES[j].weapons) :
             Includes(weaponTypes, WEAPON_SYNERGIES[j].weapons[k])}}

\* WeaponSynergyManager.checkSynergies: the new active set, from the set active
\* before the call (prev, cleared first) and the kinds of the modules handed in
checkSynergies(prev, weaponTypes) ==
    LET cleared == {}
    IN  cleared \cup {WEAPON_SYNERGIES[i].id : i \in
                        {j \in 1..Len(WEAPON_SYNERGIES) :
                           SynergyHolds(WEAPON_SYNERGIES[j], weaponTypes)}}

\* the forEach loop shared by the getters: bonus += field, then bonus += extra
RECURSIVE SumBonus(_, _, _, _)
SumBonus(active, i, field, allStatsFactor) ==
    IF i > Len(WEAPON_SYNERGIES) THEN 0
    ELSE LET s == WEAPON_SYNERGIES[i]
             own == IF s.id \in active THEN s.effects[field] ELSE 0
             all == IF s.id \in active THEN allStatsFactor * s.effects.allStatsBonus
                    ELSE 0
         IN  own + all + SumBonus(active, i + 1, field, allStatsFactor)

getDamageBonus(active)          == SumBonus(active, 1, "damageBonus", 1)
getAttackSpeedBonus(active)     == SumBonus(active, 1, "attackSpeedBonus", 1)
getRangeBonus(active)           == SumBonus(active, 1, "rangeBonus", 0)
getCritRateBonus(active)        == SumBonus(active, 1, "critRateBonus", 0)
getCritDamageBonus(active)      == SumBonus(active, 1, "critDamageBonus", 0)
getArmorBonus(active)           == SumBonus(active, 1, "armorBonus", 10)
getHealthRegenBonus(active)     == SumBonus(active, 1, "healthRegenBonus", 0)
getControlDurationBonus(active) == SumBonus(active, 1, "controlDurationBonus", 0)

\* all eight getters at once
Getters(active) ==
    <<getDamageBonus(active), getAttackSpeedBonus(active), getRangeBonus(active),
      getCritRateBonus(active), getCritDamageBonus(active), getArmorBonus(active),
      getHealthRegenBonus(active), getControlDurationBonus(active)>>

----------------------------------------------------------------------------
(* Adversaries, scheduled callbacks and the effects of firing              *)

\* ENEMIES_DATA: a minion and two elites of chapter 1, with representative
\* statistics
ENEMIES_DATA ==
    [wolf_minion |-> [rank |-> "minion", health |-> 10, speed |-> 100,
                      damage |-> 5, xpValue |-> 1, goldValue |-> 1],
     snake_elite |-> [rank |-> "elite", health |-> 50, speed |-> 80,
                      damage |-> 10, xpValue |-> 3, goldValue |-> 3],
     bear_elite  |-> [rank |-> "elite", health |-> 200, speed |-> 60,
                      damage |-> 20, xpValue |-> 5, goldValue |-> 5]]

\* Enemy.constructor; active is the liveness of the sprite (its physics body
\* exists until the sprite is destroyed)
NewEnemy(enemyType) ==
    LET enemyData == ENEMIES_DATA[enemyType]
    IN  [type |-> enemyType, maxHealth |-> HP(enemyData.health),
         health |-> HP(enemyData.health), speed |-> Speed(enemyData.speed),
         damage |-> HP(enemyData.damage), expValue |-> enemyData.xpValue,
         goldValue |-> enemyData.goldValue, isDead |-> FALSE, active |-> TRUE]

\* the part of the state the combat code reads and writes, as one value
World ==
    [enemy |-> enemy, gems |-> gems, gemsSpawned |-> gemsSpawned,
     timers |-> timers, timerCount |-> timerCount, tdLog |-> <<>>,
     player |-> player, scene |-> scene, time |-> now]

\* scene.spawnExperience(x, y, value): one more pickup
spawnExperience(wd, e, value) ==
    [wd EXCEPT !.gems = Append(@, [id |-> wd.gemsSpawned + 1, value |-> value,
                                   from |-> e]),
               !.gemsSpawned = @ + 1]

\* Enemy.die
die(wd, e) ==
    IF wd.enemy[e].isDead THEN wd
    ELSE LET dead == [wd EXCEPT !.enemy[e].isDead = TRUE]
             dropped == spawnExperience(dead, e, dead.enemy[e].expValue)
         IN  [dropped EXCEPT !.enemy[e].active = FALSE]

\* one entry of tdLog: the adversary before and after the call, what the call
\* returned and how many pickups it spawned
Logged(before, after, e, damage, ret) ==
    [after EXCEPT !.tdLog = Append(@,
        [e |-> e, damage |-> damage, before |-> before.enemy[e],
         after |-> after.enemy[e], ret |-> ret,
         spawned |-> SubSeq(after.gems, Len(before.gems) + 1, Len(after.gems))])]

\* mutant of takeDamage: the isDead guard at its head is missing
takeDamage_noGuard(wd, e, damage) ==
    LET hurt == [wd EXCEPT !.enemy[e].health = @ - damage]
    IN  IF hurt.enemy[e].health <= 0
        THEN Logged(wd, die(hurt, e), e, damage, TRUE)
        ELSE Logged(wd, hurt, e, damage, FALSE)

\* Enemy.takeDamage (the 50 ms tint reset touches only the sprite's colour)
takeDamage(wd, e, damage) ==
    IF wd.enemy[e].isDead THEN Logged(wd, wd, e, damage, FALSE)
    ELSE LET hurt == [wd EXCEPT !.enemy[e].health = @ - damage]
         IN  IF hurt.enemy[e].health <= 0
             THEN Logged(wd, die(hurt, e), e, damage, TRUE)
             ELSE Logged(wd, hurt, e, damage, FALSE)

\* Enemy.destroy: destroys the sprite if it still belongs to a scene
destroyEnemy(en) == IF en.active THEN [en EXCEPT !.active = FALSE] ELSE en

\* EnemySpawner.getEnemies
getEnemies == SelectSeq(roster, LAMBDA e : ~enemy[e].isDead)

\* a timer event: delayedCall, addEvent or a tween with onComplete
Timer(kind, due, e, val) ==
    [id |-> 0, kind |-> kind, due |-> due, e |-> e, val |-> val,
     left |-> 0, period |-> 0, link |-> 0]

\* scene.time.delayedCall / addEvent / scene.tweens.add
AddTimer(wd, t) ==
    [wd EXCEPT !.timers = Append(@, [t EXCEPT !.id = wd.timerCount + 1]),
               !.timerCount = @ + 1]

\* TimerEvent.remove
RemoveTimer(wd, id) ==
    [wd EXCEPT !.timers = SelectSeq(@, LAMBDA t : t.id # id)]

\* PurpleGoldGourd's delayed burst: every absorbed adversary that is not dead
\* takes the damage
RECURSIVE Burst(_, _, _)
Burst(wd, absorbed, damage) ==
    IF absorbed = <<>> THEN wd
    ELSE Burst(IF ~wd.enemy[Head(absorbed)].isDead
               THEN takeDamage(wd, Head(absorbed), damage) ELSE wd,
               Tail(absorbed), damage)

\* cos of the angle atan2(0, d) of a displacement d along the player's line
\* (the scene is reduced to that line; atan2(0, 0) = 0)
Dir(d) == IF d < 0 THEN 0 - 1 ELSE 1

\* Weapon.getPlayerAngle on the line: the heading of the player's velocity,
\* angle 0 while the player stands
getPlayerAngle(wd) == Dir(wd.scene.playerV)

\* the delay of the delayedCall by which each fire destroys its projectile
TimeToLive(type) ==
    CASE type = "twin_blades" -> 1500
      [] type = "crescent_blade" -> 1800
      [] type = "heaven_earth_circle" -> 3000

\* this.projectiles.create(x, y, type) with the assignments fire makes and the
\* delayedCall that ends its life; piercing is <<>> where fire assigns none,
\* seeks and seekTo log the steering of a returning projectile
create(wd, type, x, v, damage, piercing, target) ==
    LET made == [wd EXCEPT !.scene.projectiles =
                    Append(@, [type |-> type, x |-> x, v |-> v, damage |-> damage,
                               piercing |-> piercing, target |-> target,
                               active |-> TRUE, born |-> now, seeks |-> 0,
                               seekTo |-> 0])]
    IN  AddTimer(made, Timer("expire", now + TimeToLive(type),
                             Len(made.scene.projectiles), 0))

\* mutant of checkReturn: the check of circle.active is missing
checkReturn_noActiveGuard(wd, t) ==
    LET circle == wd.scene.projectiles[t.e]
        dx == wd.scene.playerX - circle.x
    IN  IF circle.active /\ dx < 30 /\ 0 - dx < 30
        THEN [wd EXCEPT !.scene.projectiles[t.e].active = FALSE]
        ELSE AddTimer([wd EXCEPT !.scene.projectiles[t.e] =
                            [@ EXCEPT !.v = Dir(dx) * ((t.val * 12) \div 10),
                                      !.seeks = @ + 1,
                                      !.seekTo = wd.scene.playerX]],
                      Timer("checkReturn", wd.time + 50, t.e, t.val))

\* HeavenEarthCircle's return callback and its checkReturn: within 30 of the
\* player's present position the circle is destroyed, else it is steered there
\* at 1.2 times the speed and the check is scheduled again 50 ms later
checkReturn(wd, t) ==
    LET circle == wd.scene.projectiles[t.e]
        dx == wd.scene.playerX - circle.x
    IN  IF ~circle.active THEN wd
        ELSE IF dx < 30 /\ 0 - dx < 30
        THEN [wd EXCEPT !.scene.projectiles[t.e].active = FALSE]
        ELSE AddTimer([wd EXCEPT !.scene.projectiles[t.e] =
                            [@ EXCEPT !.v = Dir(dx) * ((t.val * 12) \div 10),
                                      !.seeks = @ + 1,
                                      !.seekTo = wd.scene.playerX]],
                      Timer("checkReturn", wd.time + 50, t.e, t.val))

\* CrescentBlade's turn after 800 ms: the blade is steered to playerPos, the
\* position fire read (t.val), at the speed it flies with
turnBack(wd, t) ==
    LET blade == wd.scene.projectiles[t.e]
        speed == IF blade.v < 0 THEN 0 - blade.v ELSE blade.v
    IN  IF ~blade.active THEN wd
        ELSE [wd EXCEPT !.scene.projectiles[t.e] =
                 [@ EXCEPT !.v = Dir(t.val - blade.x) * speed,
                           !.seeks = @ + 1, !.seekTo = t.val]]

\* the callbacks, by kind
RunCallback(wd, t) ==
    CASE t.kind = "restoreSpeed" ->          \* NineRingStaff, RedArmillarySash
            [wd EXCEPT !.enemy[t.e].speed = t.val]
      [] t.kind = "restoreSpeedIfAlive" ->   \* GoldenRopeImmortal
            RemoveTimer(IF ~wd.enemy[t.e].isDead
                        THEN [wd EXCEPT !.enemy[t.e].speed = t.val] ELSE wd,
                        t.link)
      [] t.kind = "tickDamage" ->            \* GoldenRopeImmortal damageInterval
            IF ~wd.enemy[t.e].isDead THEN takeDamage(wd, t.e, t.val) ELSE wd
      [] t.kind = "strike" ->                \* ThunderDrum lightning onComplete
            takeDamage(wd, t.e, t.val)
      [] t.kind = "burst" ->                 \* PurpleGoldGourd delayedCall
            Burst(wd, t.e, t.val)
      [] t.kind = "expire" ->                \* if (p.active) p.destroy()
            IF wd.scene.projectiles[t.e].active
            THEN [wd EXCEPT !.scene.projectiles[t.e].active = FALSE] ELSE wd
      [] t.kind = "checkReturn" -> checkReturn(wd, t)
      [] t.kind = "turnBack" -> turnBack(wd, t)

\* Clock.update for one event that is due: dispatch, then repeat or drop it
FireTimer(wd, t) ==
    LET ran == RunCallback(wd, t)
    IN  IF t.left > 0
        THEN [ran EXCEPT !.timers =
                 [k \in DOMAIN @ |-> IF @[k].id = t.id
                                     THEN [@[k] EXCEPT !.left = @ - 1,
                                                       !.due = @ + t.period]
                                     ELSE @[k]]]
        ELSE RemoveTimer(ran, t.id)

\* Clock.update: the events present when the frame starts, in insertion order
RECURSIVE RunDue(_, _, _)
RunDue(wd, ids, time) ==
    IF ids = <<>> THEN wd
    ELSE LET here == SelectSeq(wd.timers, LAMBDA t : t.id = Head(ids))
         IN  IF here = <<>> \/ here[1].due > time
             THEN RunDue(wd, Tail(ids), time)
             ELSE RunDue(FireTimer(wd, here[1]), Tail(ids), time)

\* NineRingStaff.fire: damage everything in the ring, slow it for stunDuration
RECURSIVE FireNineRingStaff(_, _, _, _)
FireNineRingStaff(wd, w, enemies, inRange) ==
    IF enemies = <<>> THEN wd
    ELSE LET e == Head(enemies)
         IN  IF wd.enemy[e].isDead \/ e \notin inRange
             THEN FireNineRingStaff(wd, w, Tail(enemies), inRange)
             ELSE LET hit == takeDamage(wd, e, w.damage)
                      originalSpeed == hit.enemy[e].speed
                      slowed ==
                          IF hit.enemy[e].active
                          THEN AddTimer(
                                 [hit EXCEPT !.enemy[e].speed = (@ * 3) \div 10],
                                 Timer("restoreSpeed", now + w.t.stunDuration, e,
                                       originalSpeed))
                          ELSE hit
                  IN  FireNineRingStaff(slowed, w, Tail(enemies), inRange)

\* RedArmillarySash.fire, one whip: hits[e] is the number of adjacent whips,
\* counted from the first, whose cone holds adversary e
RECURSIVE SashWhip(_, _, _, _, _)
SashWhip(wd, w, enemies, hits, i) ==
    IF enemies = <<>> THEN wd
    ELSE LET e == Head(enemies)
         IN  IF wd.enemy[e].isDead \/ hits[e] <= i
             THEN SashWhip(wd, w, Tail(enemies), hits, i)
             ELSE LET hit == takeDamage(wd, e, w.damage)
                      originalSpeed == hit.enemy[e].speed
                      slowed ==
                          IF hit.enemy[e].active
                          THEN AddTimer(
                                 [hit EXCEPT !.enemy[e].speed = (@ * 5) \div 10],
                                 Timer("restoreSpeed", now + 800, e, originalSpeed))
                          ELSE hit
                  IN  SashWhip(slowed, w, Tail(enemies), hits, i)

\* RedArmillarySash.fire: whipCount whips, one after the other
RECURSIVE FireRedArmillarySash(_, _, _, _, _)
FireRedArmillarySash(wd, w, enemies, hits, i) ==
    IF i >= w.t.whipCount THEN wd
    ELSE FireRedArmillarySash(SashWhip(wd, w, enemies, hits, i), w, enemies,
                              hits, i + 1)

\* GoldenRopeImmortal.fire: the ropeChains closest live adversaries (sorted) that
\* are within chainLength are damaged, slowed and tick-damaged for 1500 ms
RECURSIVE FireGoldenRopeImmortal(_, _, _, _)
FireGoldenRopeImmortal(wd, w, sortedEnemies, inRange) ==
    IF sortedEnemies = <<>> THEN wd
    ELSE LET e == Head(sortedEnemies)
         IN  IF e \notin inRange
             THEN FireGoldenRopeImmortal(wd, w, Tail(sortedEnemies), inRange)
             ELSE LET hit == takeDamage(wd, e, w.damage)
                      originalSpeed == hit.enemy[e].speed
                      bindDuration == 1500
                      tickDamage == (w.damage * 2) \div 10
                      tickInterval == 300
                      slowed == [hit EXCEPT !.enemy[e].speed = (@ * 2) \div 10]
                      ticking ==
                          AddTimer(slowed,
                              [Timer("tickDamage", now + tickInterval, e, tickDamage)
                                 EXCEPT !.left = bindDuration \div tickInterval,
                                        !.period = tickInterval])
                      bound ==
                          AddTimer(ticking,
                              [Timer("restoreSpeedIfAlive", now + bindDuration, e,
                                     originalSpeed)
                                 EXCEPT !.link = ticking.timerCount])
                  IN  FireGoldenRopeImmortal(
                          IF hit.enemy[e].active THEN bound ELSE hit,
                          w, Tail(sortedEnemies), inRange)

\* ThunderDrum.fire: a lightning tween on each target, damage when it completes
\* (the module is not upgraded while a tween is pending in this model, so
\* this.damage at completion is the damage at firing)
RECURSIVE FireThunderDrum(_, _, _)
FireThunderDrum(wd, w, targets) ==
    IF targets = <<>> THEN wd
    ELSE FireThunderDrum(
             AddTimer(wd, Timer("strike", now + 300, Head(targets), w.damage)),
             w, Tail(targets))

\* PurpleGoldGourd.fire: the adversaries in the radius that are not dead are
\* absorbed; absorbDuration later the burst damages them (this.damage is read
\* then; the module is not upgraded while a burst is pending in this model)
FirePurpleGoldGourd(wd, w, enemies, inRange) ==
    AddTimer(wd, Timer("burst", now + w.t.absorbDuration,
                       SelectSeq(enemies, LAMBDA e : ~wd.enemy[e].isDead
                                                     /\ e \in inRange),
                       w.damage))

\* GinsengFruit.fire: heal the player up to maxHealth, damage what is near
RECURSIVE GinsengDamage(_, _, _, _)
GinsengDamage(wd, w, enemies, inRange) ==
    IF enemies = <<>> THEN wd
    ELSE LET e == Head(enemies)
         IN  GinsengDamage(
                 IF wd.enemy[e].isDead \/ e \notin inRange THEN wd
                 ELSE takeDamage(wd, e, w.damage),
                 w, Tail(enemies), inRange)

FireGinsengFruit(wd, w, enemies, inRange) ==
    GinsengDamage(
        [wd EXCEPT !.player.health =
            Min(wd.player.health + HP(w.t.healAmount), wd.player.maxHealth)],
        w, enemies, inRange)

\* the orderings of a set of adversaries (a sort by distance, a shuffle)
Orderings(S) ==
    {o \in [1..Cardinality(S) -> S] : \A i, j \in DOMAIN o : i # j => o[i] # o[j]}

\* the first n entries of a sequence: slice(0, n)
Slice(seq, n) == SubSeq(seq, 1, Min(n, Len(seq)))

\* what one firing can meet: which adversaries are in reach (and in how many
\* whip cones), and the order a sort by distance or a shuffle gives
FireChoices(enemies) ==
    [hits : [SeqToSet(enemies) -> 0..2], order : Orderings(SeqToSet(enemies))]

\* TwinBlades.fire: one blade for each of the first two adversaries of the list
\* that are not dead, from 10 to the left and to the right of the player
RECURSIVE TwinBladesFrom(_, _, _, _)
TwinBladesFrom(wd, w, targets, index) ==
    IF index >= Len(targets) THEN wd
    ELSE LET target == targets[index + 1]
             playerPos == wd.scene.playerX
         IN  TwinBladesFrom(
                 create(wd, w.type, playerPos + (IF index = 0 THEN 0 - 10 ELSE 10),
                        Dir(wd.scene.enemyX[target] - playerPos) * w.t.projectileSpeed,
                        w.damage, <<1>>, target),
                 w, targets, index + 1)

FireTwinBlades(wd, w, enemies) ==
    IF enemies = <<>> THEN wd
    ELSE TwinBladesFrom(wd, w,
             Slice(SelectSeq(enemies, LAMBDA e : ~wd.enemy[e].isDead), 2), 0)

\* CrescentBlade.fire: bladeCount blades along the player's heading (the fan of
\* their angles is collapsed onto the line), each with its turn after 800 ms;
\* the list of adversaries is not read. The expiry is scheduled after the turn
\* here as in fire; both are due in different frames.
RECURSIVE FireCrescentBlade(_, _, _)
FireCrescentBlade(wd, w, i) ==
    IF i >= w.t.bladeCount THEN wd
    ELSE LET playerPos == wd.scene.playerX
             made == create(wd, w.type, playerPos,
                            getPlayerAngle(wd) * w.t.returnSpeed, w.damage, <<>>, 0)
         IN  FireCrescentBlade(
                 AddTimer(made, Timer("turnBack", now + 800,
                                      Len(made.scene.projectiles), playerPos)),
                 w, i + 1)

\* HeavenEarthCircle.fire: one circle along the player's heading, its return
\* after returnDelay (the module is not upgraded while a circle flies in this
\* model, so the callback reads the circleSpeed of the firing)
FireHeavenEarthCircle(wd, w, enemies) ==
    IF enemies = <<>> THEN wd
    ELSE LET made == create(wd, w.type, wd.scene.playerX,
                            getPlayerAngle(wd) * w.t.circleSpeed, w.damage, <<>>, 0)
         IN  AddTimer(made, Timer("checkReturn", now + w.t.returnDelay,
                                  Len(made.scene.projectiles), w.t.circleSpeed))

\* fire(enemies) of the kind of w under choice c
Fire(wd, w, enemies, c) ==
    LET inRange == {e \in SeqToSet(enemies) : c.hits[e] > 0}
        alive == SelectSeq(c.order, LAMBDA e : ~wd.enemy[e].isDead)
    IN  CASE w.type = "nine_ring_staff" -> FireNineRingStaff(wd, w, enemies, inRange)
          [] w.type = "red_armillary_sash" ->
                FireRedArmillarySash(wd, w, enemies, c.hits, 0)
          [] w.type = "golden_rope_immortal" ->
                FireGoldenRopeImmortal(wd, w, Slice(alive, w.t.ropeChains), inRange)
          [] w.type = "thunder_drum" ->
                FireThunderDrum(wd, w, Slice(alive, w.t.strikeCount))
          [] w.type = "ginseng_fruit" -> FireGinsengFruit(wd, w, enemies, inRange)
          [] w.type = "purple_gold_gourd" ->
                FirePurpleGoldGourd(wd, w, enemies, inRange)
          [] w.type = "twin_blades" -> FireTwinBlades(wd, w, enemies)
          [] w.type = "crescent_blade" -> FireCrescentBlade(wd, w, 0)
          [] w.type = "heaven_earth_circle" -> FireHeavenEarthCircle(wd, w, enemies)
          [] OTHER -> wd

----------------------------------------------------------------------------
(* Upgrades: Weapon.upgrade and the applyUpgrade of each kind. applyUpgrade *)
(* runs after level was incremented; s is [w |-> module, player |-> player] *)

Tune(s, field, v) == [s EXCEPT !.w.t[field] = v]

\* GoldenStaff.applyUpgrade
UpGoldenStaff(s) ==
    LET a == [s EXCEPT !.w.damage = @ + HP(5), !.w.coolDown = Max(300, @ - 100)]
        b == IF a.w.level >= 3 THEN Tune(a, "piercing", 2) ELSE a
    IN  IF b.w.level >= 5 THEN Tune(b, "piercing", 3) ELSE b

\* FireproofCloak.applyUpgrade (createOrbs rebuilds orbs to orbCount)
UpFireproofCloak(s) ==
    LET a == [s EXCEPT !.w.damage = @ + HP(5)]
    IN  CASE a.w.level = 2 -> Tune(Tune(a, "orbCount", 2), "orbs", 2)
          [] a.w.level = 3 -> Tune(a, "radius", 100)
          [] a.w.level = 4 -> Tune(Tune(a, "orbCount", 3), "orbs", 3)
          [] a.w.level = 5 -> Tune(a, "rotationSpeed", 3)
          [] OTHER -> a

\* FireLance.applyUpgrade
UpFireLance(s) ==
    LET a == [s EXCEPT !.w.damage = @ + HP(6), !.w.coolDown = Max(600, @ - 150)]
        b == IF a.w.level >= 3 THEN Tune(a, "piercing", 3) ELSE a
    IN  IF b.w.level >= 5 THEN [b EXCEPT !.w.t.projectileSpeed = @ + 100] ELSE b

\* WindTamer.applyUpgrade (orbCount changes without createOrbs)
UpWindTamer(s) ==
    LET a == [s EXCEPT !.w.damage = @ + HP(8)]
        b == IF a.w.level >= 2 THEN Tune(a, "damageRadius", 120) ELSE a
        c == IF b.w.level >= 3 THEN [b EXCEPT !.w.coolDown = 1500] ELSE b
        d == IF c.w.level >= 4 THEN Tune(c, "damageRadius", 150) ELSE c
    IN  IF d.w.level >= 5 THEN Tune(d, "orbCount", 2) ELSE d

\* Mace.applyUpgrade (stunChance in hundredths)
UpMace(s) ==
    LET a == [s EXCEPT !.w.damage = @ + HP(10)]
        b == IF a.w.level >= 2 THEN Tune(a, "stunChance", 40) ELSE a
        c == IF b.w.level >= 3 THEN [b EXCEPT !.w.coolDown = 1500] ELSE b
        d == IF c.w.level >= 4 THEN Tune(c, "stunChance", 50) ELSE c
    IN  IF d.w.level >= 5 THEN [d EXCEPT !.w.damage = @ + HP(15)] ELSE d

\* ThunderDrum.applyUpgrade
UpThunderDrum(s) ==
    LET a == [s EXCEPT !.w.damage = @ + HP(6)]
        b == IF a.w.level >= 2 THEN Tune(a, "strikeCount", 4) ELSE a
        c == IF b.w.level >= 3 THEN [b EXCEPT !.w.coolDown = 1300] ELSE b
        d == IF c.w.level >= 4 THEN Tune(c, "strikeCount", 5) ELSE c
    IN  IF d.w.level >= 5 THEN [d EXCEPT !.w.damage = @ + HP(10)] ELSE d

\* WindFireWheels.applyUpgrade (orbCount changes without createOrbs)
UpWindFireWheels(s) ==
    LET a == [s EXCEPT !.w.damage = @ + HP(7)]
        b == IF a.w.level >= 2 THEN Tune(a, "rotationSpeed", 5) ELSE a
        c == IF b.w.level >= 3 THEN Tune(b, "radius", 90) ELSE b
        d == IF c.w.level >= 4 THEN Tune(c, "rotationSpeed", 6) ELSE c
    IN  IF d.w.level >= 5 THEN Tune(d, "orbCount", 3) ELSE d

\* mutant of NineRingStaff.applyUpgrade: the radius is assigned, not increased
UpNineRingStaff_radiusAssigned(s) ==
    LET a == [s EXCEPT !.w.damage = @ + HP(7),
                       !.w.t.soundWaveRadius = ScaleValue(20)]
        b == IF a.w.level >= 3 THEN Tune(a, "stunDuration", 1500) ELSE a
    IN  IF b.w.level >= 5 THEN [b EXCEPT !.w.coolDown = 1200] ELSE b

\* NineRingStaff.applyUpgrade
UpNineRingStaff(s) ==
    LET a == [s EXCEPT !.w.damage = @ + HP(7),
                       !.w.t.soundWaveRadius = @ + ScaleValue(20)]
        b == IF a.w.level >= 3 THEN Tune(a, "stunDuration", 1500) ELSE a
    IN  IF b.w.level >= 5 THEN [b EXCEPT !.w.coolDown = 1200] ELSE b

\* GinsengFruit.applyUpgrade: a pending maxHealthBonus is paid to the player
UpGinsengFruit(s) ==
    LET a == [s EXCEPT !.w.t.healAmount = @ + 10, !.w.damage = @ + HP(5)]
        b == IF a.w.level >= 2 THEN Tune(a, "maxHealthBonus", 20) ELSE a
        c == IF b.w.level >= 3 THEN [b EXCEPT !.w.coolDown = 4000] ELSE b
        d == IF c.w.level >= 4 THEN Tune(c, "maxHealthBonus", 40) ELSE c
        e == IF d.w.level >= 5 THEN Tune(d, "healAmount", 100) ELSE d
    IN  IF e.w.t.maxHealthBonus > 0
        THEN [e EXCEPT !.player.maxHealth = @ + HP(e.w.t.maxHealthBonus),
                       !.w.t.maxHealthBonus = 0]
        ELSE e

\* HeavenEarthCircle.applyUpgrade
UpHeavenEarthCircle(s) ==
    LET a == [s EXCEPT !.w.damage = @ + HP(8), !.w.t.circleSpeed = @ + 50]
    IN  IF a.w.level >= 5 THEN Tune(a, "returnDelay", 1500) ELSE a

\* RedArmillarySash.applyUpgrade
UpRedArmillarySash(s) ==
    LET a == [s EXCEPT !.w.damage = @ + HP(6),
                       !.w.t.sashLength = @ + ScaleValue(25)]
        b == IF a.w.level >= 3 THEN Tune(a, "whipCount", 4) ELSE a
    IN  IF b.w.level >= 5 THEN Tune(b, "whipCount", 5) ELSE b

\* PurpleGoldGourd.applyUpgrade
UpPurpleGoldGourd(s) ==
    LET a == [s EXCEPT !.w.damage = @ + HP(10),
                       !.w.t.absorbRadius = @ + ScaleValue(20)]
        b == IF a.w.level >= 3 THEN Tune(a, "absorbDuration", 1500) ELSE a
    IN  IF b.w.level >= 5 THEN [b EXCEPT !.w.coolDown = 2800] ELSE b

\* GoldenRopeImmortal.applyUpgrade
UpGoldenRopeImmortal(s) ==
    LET a == [s EXCEPT !.w.damage = @ + HP(6),
                       !.w.t.chainLength = @ + ScaleValue(30)]
        b == IF a.w.level >= 3 THEN Tune(a, "ropeChains", 4) ELSE a
    IN  IF b.w.level >= 5 THEN Tune(b, "ropeChains", 5) ELSE b

\* SevenStarSword.applyUpgrade (createSwords rebuilds swords to swordCount)
UpSevenStarSword(s) ==
    LET a == [s EXCEPT !.w.damage = @ + HP(5),
                       !.w.t.orbitRadius = @ + ScaleValue(10)]
        b == IF a.w.level >= 3 THEN Tune(Tune(a, "swordCount", 5), "swords", 5)
             ELSE a
    IN  IF b.w.level >= 5 THEN Tune(Tune(b, "swordCount", 7), "swords", 7) ELSE b

\* the abstract Weapon.applyUpgrade, dispatched on the kind
applyUpgrade(s) ==
    CASE s.w.type = "golden_staff"         -> UpGoldenStaff(s)
      [] s.w.type = "fireproof_cloak"      -> UpFireproofCloak(s)
      [] s.w.type = "fire_lance"           -> UpFireLance(s)
      [] s.w.type = "wind_tamer"           -> UpWindTamer(s)
      [] s.w.type = "mace"                 -> UpMace(s)
      [] s.w.type = "thunder_drum"         -> UpThunderDrum(s)
      [] s.w.type = "wind_fire_wheels"     -> UpWindFireWheels(s)
      [] s.w.type = "nine_ring_staff"      -> UpNineRingStaff(s)
      [] s.w.type = "ginseng_fruit"        -> UpGinsengFruit(s)
      [] s.w.type = "heaven_earth_circle"  -> UpHeavenEarthCircle(s)
      [] s.w.type = "red_armillary_sash"   -> UpRedArmillarySash(s)
      [] s.w.type = "purple_gold_gourd"    -> UpPurpleGoldGourd(s)
      [] s.w.type = "golden_rope_immortal" -> UpGoldenRopeImmortal(s)
      [] s.w.type = "seven_star_sword"     -> UpSevenStarSword(s)

\* mutant of upgrade: the level < maxLevel guard is missing
upgrade_noGuard(s) == applyUpgrade([s EXCEPT !.w.level = @ + 1])

\* Weapon.upgrade
upgrade(s) ==
    IF s.w.level < s.w.maxLevel
    THEN applyUpgrade([s EXCEPT !.w.level = @ + 1])
    ELSE s

\* the kinds whose class overrides update(): the orbs are moved, fire is not
\* called and lastFired is not written
OrbitKinds == {"fireproof_cloak", "wind_tamer", "wind_fire_wheels",
               "seven_star_sword"}

\* the sprites a module keeps alive: this.orbs (createOrbs) and, for
\* SevenStarSword, this.swords (createSwords)
SpritesOf(w) ==
    [orb   |-> IF "orbs" \in DOMAIN w.t THEN w.t.orbs ELSE 0,
     sword |-> IF "swords" \in DOMAIN w.t THEN w.t.swords ELSE 0]

\* the sprites of modules i..Len(ws) of a roster
RECURSIVE SpritesFrom(_, _)
SpritesFrom(ws, i) ==
    IF i > Len(ws) THEN [orb |-> 0, sword |-> 0]
    ELSE LET rest == SpritesFrom(ws, i + 1)
         IN  [orb |-> SpritesOf(ws[i]).orb + rest.orb,
              sword |-> SpritesOf(ws[i]).sword + rest.sword]

\* update(time, enemies) of the kind of w: Weapon.update unless overridden
update(wd, w, time, enemies, c) ==
    IF w.type \notin OrbitKinds /\ time - w.lastFired >= w.coolDown
    THEN [wd |-> Fire(wd, w, enemies, c), w |-> [w EXCEPT !.lastFired = time],
          fired |-> TRUE]
    ELSE [wd |-> wd, w |-> w, fired |-> FALSE]

\* WeaponManager.update: every module in roster order; r carries the world,
\* the roster and the log of the calls made
RECURSIVE UpdateAll(_, _, _, _, _)
UpdateAll(r, i, time, enemies, cs) ==
    IF i > Len(r.ws) THEN r
    ELSE LET w == r.ws[i]
             u == update(r.wd, w, time, enemies, cs[i])
         IN  UpdateAll([wd |-> u.wd, ws |-> [r.ws EXCEPT ![i] = u.w],
                        log |-> Append(r.log,
                            [type |-> w.type, lastFiredBefore |-> w.lastFired,
                             coolDown |-> w.coolDown, fired |-> u.fired,
                             lastFiredAfter |-> u.w.lastFired])],
                       i + 1, time, enemies, cs)

----------------------------------------------------------------------------
(* Initial state: every manager freshly constructed                        *)

NoUpdate == [called |-> FALSE]
NoOffer == [called |-> FALSE]

\* EnemySpawner.constructor
NewSpawner(availableEnemies) ==
    [spawnTimer |-> 0, baseSpawnInterval |-> 1500, spawnInterval |-> 1500,
     enemiesPerWave |-> 2, maxEnemiesOnScreen |-> 100, difficultyTimer |-> 0,
     gameTime |-> 0,
     availableEnemies |-> IF Len(availableEnemies) > 0 THEN availableEnemies
                          ELSE <<"wolf_minion">>,
     minSpawnDistance |-> 500, maxSpawnDistance |-> 700]

NewPlayer == [health |-> HP(100), maxHealth |-> HP(100), experience |-> 0]

\* PERMANENT_UPGRADES: id, maxLevel and the cost of the step from level
PERMANENT_UPGRADES ==
    <<[id |-> "attack", maxLevel |-> 10, base |-> 50],
      [id |-> "health", maxLevel |-> 10, base |-> 40],
      [id |-> "armor", maxLevel |-> 10, base |-> 60],
      [id |-> "luck", maxLevel |-> 10, base |-> 80],
      [id |-> "speed", maxLevel |-> 5, base |-> 100]>>

\* PermanentUpgrade.cost: (level) => base + level * base
cost(item, level) == item.base + level * item.base

\* DEFAULT_SAVE with totalGold gold; spent and refunded log the gold paid by
\* upgradePermanent since the last reset and the refund of the last reset,
\* asked and returned the argument and the result of the last upgradePermanent
NewSave(gold) ==
    [totalGold |-> gold, attack |-> 0, health |-> 0, armor |-> 0, luck |-> 0,
     speed |-> 0, spent |-> 0, refunded |-> 0, asked |-> "none",
     returned |-> FALSE]

\* PERMANENT_UPGRADES.find((u) => u.id === upgradeId): <<>> is undefined
find(upgradeId) ==
    LET found == SelectSeq(PERMANENT_UPGRADES, LAMBDA u : u.id = upgradeId)
    IN  IF found = <<>> THEN <<>> ELSE <<found[1]>>

\* mutant of upgradePermanent: the level is not compared with maxLevel
upgradePermanent_noMaxLevel(state, upgradeId) ==
    LET item == find(upgradeId)
        called == [state EXCEPT !.asked = upgradeId, !.returned = FALSE]
    IN  IF item = <<>> THEN called
        ELSE LET currentLevel == state[upgradeId]
                 price == cost(item[1], currentLevel)
             IN  IF state.totalGold >= price
                 THEN [called EXCEPT !.totalGold = @ - price,
                                     ![upgradeId] = currentLevel + 1,
                                     !.spent = @ + price,
                                     !.returned = TRUE]
                 ELSE called

\* upgradePermanent(upgradeId): false for an unknown id, for a level at
\* maxLevel and for gold below the cost of the step; else the cost is paid and
\* the level raised by one
upgradePermanent(state, upgradeId) ==
    LET item == find(upgradeId)
        called == [state EXCEPT !.asked = upgradeId, !.returned = FALSE]
    IN  IF item = <<>> THEN called
        ELSE LET currentLevel == state[upgradeId]
                 price == cost(item[1], currentLevel)
             IN  IF currentLevel >= item[1].maxLevel THEN called
                 ELSE IF state.totalGold >= price
                 THEN [called EXCEPT !.totalGold = @ - price,
                                     ![upgradeId] = currentLevel + 1,
                                     !.spent = @ + price,
                                     !.returned = TRUE]
                 ELSE called

\* new AudioManager(scene): no sound, the lock free; musicEnabled is the
\* setting of the store it reads, sounds the sounds the scene has added, calls
\* and started count the playSfx calls and those that started a sound, outcome
\* is what sound.add and play did in the last call
NewAudioManager ==
    [musicEnabled |-> TRUE, isPlayerSoundEnabled |-> FALSE, music |-> 0,
     sounds |-> <<>>, calls |-> 0, started |-> 0, outcome |-> "none"]

\* a session with the roster ws equipped and the adversaries es on screen at
\* the places xs of the player's line
InitAt(ws, es, xs) ==
    /\ weapons = ws
    /\ activeSynergies = {}
    /\ synChecked = [called |-> FALSE]
    /\ now = 0
    /\ player = NewPlayer
    /\ staticType = IF ws = <<>> THEN "none" ELSE ws[Len(ws)].type
    /\ upgradeCalls = 0
    /\ lastUpdate = NoUpdate
    /\ offer = NoOffer
    /\ sprites = SpritesFrom(ws, 1)
    /\ enemy = es
    /\ roster = [i \in 1..Len(es) |-> i]
    /\ gems = <<>>
    /\ gemsSpawned = 0
    /\ timers = <<>>
    /\ timerCount = 0
    /\ tdLog = <<>>
    /\ directHits = 0
    /\ spawner = NewSpawner(<<>>)
    /\ spawnLog = [called |-> FALSE, count |-> 0]
    /\ xpLog = <<>>
    /\ scene = [playerX |-> 0, playerV |-> 0, enemyX |-> xs, projectiles |-> <<>>,
                killCount |-> 0, killsSinceLastReward |-> 0,
                killsRequiredForReward |-> 20, rewards |-> 0,
                audioManager |-> NewAudioManager, drawn |-> [called |-> FALSE]]
    /\ save = NewSave(0)

\* the adversaries at the spawner's least spawn distance
InitWith(ws, es) ==
    InitAt(ws, es, [i \in 1..Len(es) |-> NewSpawner(<<>>).minSpawnDistance])

InitBase == InitWith(<<>>, <<>>)

----------------------------------------------------------------------------
(* Operations on modules, adversaries and the scene clock                  *)

MaxHits == 4    \* direct takeDamage calls explored

\* the world after an operation becomes the next state
Commit(wd) ==
    /\ enemy' = wd.enemy
    /\ gems' = wd.gems
    /\ gemsSpawned' = wd.gemsSpawned
    /\ timers' = wd.timers
    /\ timerCount' = wd.timerCount
    /\ tdLog' = wd.tdLog
    /\ player' = wd.player
    /\ scene' = wd.scene

\* a call enemy.takeDamage(damage) on a reference the caller holds
EnemyTakeDamage(e, damage) ==
    /\ directHits < MaxHits
    /\ directHits' = directHits + 1
    /\ Commit(takeDamage(World, e, damage))
    /\ UNCHANGED <<weaponVars, synVars, now, roster, spawnVars, xpLog, save>>

\* EnemySpawner.clear: destroy every adversary of the roster, empty the roster
SpawnerClear ==
    /\ roster # <<>>
    /\ enemy' = [e \in DOMAIN enemy |->
                    IF e \in SeqToSet(roster) THEN destroyEnemy(enemy[e])
                    ELSE enemy[e]]
    /\ roster' = <<>>
    /\ tdLog' = <<>>
    /\ UNCHANGED <<weaponVars, synVars, now, player, timers, timerCount,
                   directHits, gems, gemsSpawned, spawnVars, xpLog, scene,
                   save>>

\* a call weapon.upgrade() on module i of the roster
Upgrade(i) ==
    /\ upgradeCalls < MaxUpgradeCalls
    /\ upgradeCalls' = upgradeCalls + 1
    /\ LET s == upgrade([w |-> weapons[i], player |-> player])
       IN  /\ weapons' = [weapons EXCEPT ![i] = s.w]
           /\ player' = s.player
           /\ sprites' = [orb   |-> sprites.orb - SpritesOf(weapons[i]).orb
                                        + SpritesOf(s.w).orb,
                          sword |-> sprites.sword - SpritesOf(weapons[i]).sword
                                        + SpritesOf(s.w).sword]
    /\ offer' = NoOffer
    /\ UNCHANGED <<synVars, now, staticType, lastUpdate, combatVars, spawnVars,
                   pickVars, scene, save>>

\* WeaponManager.update(time, enemies) with the scene's clock and the
\* spawner's live adversaries
WeaponManagerUpdate(cs) ==
    LET r == UpdateAll([wd |-> World, ws |-> weapons, log |-> <<>>], 1, now,
                       getEnemies, cs)
    IN  /\ weapons' = r.ws
        /\ lastUpdate' = [called |-> TRUE, time |-> now, calls |-> r.log]
        /\ Commit(r.wd)
        /\ UNCHANGED <<synVars, now, staticType, upgradeCalls, offer, sprites,
                       roster, directHits, spawnVars, xpLog, save>>

\* the start of a frame of dt ms: the clock advances, the player and the live
\* projectiles move by their velocities (pixels per second)
Step(wd, dt) ==
    LET moved(p) == IF p.active THEN [p EXCEPT !.x = @ + (p.v * dt) \div 1000]
                    ELSE p
    IN  [wd EXCEPT !.time = @ + dt,
                   !.scene.playerX = @ + (wd.scene.playerV * dt) \div 1000,
                   !.scene.projectiles = [k \in DOMAIN @ |-> moved(@[k])]]

\* a frame of dt ms: the physics step, then Clock.update / TweenManager.update:
\* the callbacks that are due run, in the order they were scheduled
ClockUpdate(dt, horizon) ==
    /\ now + dt <= horizon
    /\ now' = now + dt
    /\ Commit(RunDue(Step(World, dt), [k \in 1..Len(timers) |-> timers[k].id],
                     now + dt))
    /\ UNCHANGED <<weaponVars, synVars, roster, directHits, spawnVars, xpLog, save>>

----------------------------------------------------------------------------
(* Adversary specification: takeDamage and clear on two adversaries        *)

EnemyTypes == {"wolf_minion", "snake_elite"}
Damages == {HP(3), HP(10), HP(60)}

InitEnemy ==
    \E t1, t2 \in EnemyTypes : InitWith(<<>>, <<NewEnemy(t1), NewEnemy(t2)>>)

NextEnemy ==
    \/ \E e \in DOMAIN enemy, damage \in Damages : EnemyTakeDamage(e, damage)
    \/ SpawnerClear

SpecEnemy == InitEnemy /\ [][NextEnemy]_vars

\* the pickups an adversary has dropped so far
DropsOf(e) == {k \in DOMAIN gems : gems[k].from = e}

\* C1: every takeDamage call on a dead adversary returns false and changes
\* neither the adversary nor the pickups; the call that brings health to 0 or
\* below returns true and spawns one pickup of the adversary's expValue; any
\* other call returns false and spawns nothing; no adversary ever has dropped
\* more than one pickup.
C1_DeathAtMostOnce ==
    /\ \A k \in DOMAIN tdLog :
         LET c == tdLog[k]
         IN  /\ c.before.isDead =>
                    c.ret = FALSE /\ c.after = c.before /\ c.spawned = <<>>
             /\ (~c.before.isDead /\ c.before.health - c.damage <= 0) =>
                    /\ c.ret = TRUE
                    /\ c.after.isDead
                    /\ Len(c.spawned) = 1
                    /\ c.spawned[1].value = c.before.expValue
                    /\ c.spawned[1].from = c.e
             /\ (~c.before.isDead /\ c.before.health - c.damage > 0) =>
                    c.ret = FALSE /\ ~c.after.isDead /\ c.spawned = <<>>
    /\ \A e \in DOMAIN enemy :
         Cardinality(DropsOf(e)) = (IF enemy[e].isDead THEN 1 ELSE 0)

\* C1 witness: a takeDamage call has just been made on an adversary that had
\* died before, and that adversary's one pickup is on the ground.
C1_Witness ==
    /\ Len(tdLog) = 1
    /\ tdLog[1].before.isDead
    /\ tdLog[1].damage > 0
    /\ tdLog[1].ret = FALSE
    /\ Cardinality(DropsOf(tdLog[1].e)) = 1

\* C20 (as claimed): whatever takeDamage calls were made, with whatever positive
\* amounts, the health of every adversary is between 0 and its maxHealth.
C20_HealthInRange ==
    \A e \in DOMAIN enemy :
        enemy[e].health >= 0 /\ enemy[e].health <= enemy[e].maxHealth

----------------------------------------------------------------------------
(* Module specification: one module of any kind is upgraded and updated    *)
(* while the clock runs; there is nothing on screen to hit                 *)

WeaponHorizon == 5200    \* the clock of this specification stops here (ms)

WeaponKinds == DOMAIN WEAPON_MAP

InitWeapon == \E kind \in WeaponKinds : InitWith(<<WEAPON_MAP[kind]>>, <<>>)

NextWeapon ==
    \/ \E i \in DOMAIN weapons : Upgrade(i)
    \/ \E cs \in [DOMAIN weapons -> FireChoices(getEnemies)] : WeaponManagerUpdate(cs)
    \/ \E dt \in {200, 1000} : ClockUpdate(dt, WeaponHorizon)

SpecWeapon == InitWeapon /\ [][NextWeapon]_vars

\* C2: the level of every module stays within 1..maxLevel = 5 and never
\* decreases, and an upgrade() call made at level = maxLevel leaves the module
\* (level, damage, cooldown, tunables) and the player as they were.
C2_LevelBounded ==
    /\ [](\A i \in DOMAIN weapons :
            /\ weapons[i].maxLevel = 5
            /\ 1 <= weapons[i].level
            /\ weapons[i].level <= weapons[i].maxLevel)
    /\ [][\A i \in DOMAIN weapons :
            /\ weapons'[i].level >= weapons[i].level
            /\ (upgradeCalls' # upgradeCalls /\ weapons[i].level = weapons[i].maxLevel)
                  => (weapons' = weapons /\ player' = player)]_vars

\* C2 witness: a ginseng_fruit module at maxLevel after more upgrade() calls
\* than levels, with the player's maxHealth raised by its upgrades.
C2_Witness ==
    /\ upgradeCalls > 4
    /\ weapons[1].type = "ginseng_fruit"
    /\ weapons[1].level = weapons[1].maxLevel
    /\ player.maxHealth > NewPlayer.maxHealth

\* C6 (as claimed): every update call of every kind has fired exactly when
\* time - lastFired >= coolDown, and then lastFired is the time of the call;
\* otherwise it has not fired and lastFired is as before.
C6_FiresExactlyOnCooldown ==
    lastUpdate.called =>
        \A k \in DOMAIN lastUpdate.calls :
            LET c == lastUpdate.calls[k]
            IN  IF lastUpdate.time - c.lastFiredBefore >= c.coolDown
                THEN c.fired /\ c.lastFiredAfter = lastUpdate.time
                ELSE ~c.fired /\ c.lastFiredAfter = c.lastFiredBefore

\* the tunables that are waiting times: the wait before PurpleGoldGourd's burst
WaitingTimes == {"absorbDuration"}

----------------------------------------------------------------------------
(* Combat specification: a roster of debuffing and delayed-damage modules  *)
(* fires at two adversaries while the clock runs the scheduled callbacks;  *)
(* the spawner may be cleared at any time                                  *)

CombatHorizon == 3200    \* the clock of this specification stops here (ms)

Loadouts == {<<RedArmillarySash, NineRingStaff>>,
             <<GoldenRopeImmortal, ThunderDrum>>}

InitCombat ==
    \E ws \in Loadouts :
        InitWith(ws, <<NewEnemy("snake_elite"), NewEnemy("bear_elite")>>)

NextCombat ==
    \/ \E c \in FireChoices(getEnemies) :
            WeaponManagerUpdate([i \in DOMAIN weapons |-> c])
    \/ ClockUpdate(100, CombatHorizon)
    \/ SpawnerClear

SpecCombat == InitCombat /\ [][NextCombat]_vars

\* the adversary is alive and on screen
Live(e) == ~enemy[e].isDead /\ enemy[e].active

\* C7 (as claimed): a clock step, which runs the callbacks scheduled earlier,
\* changes neither health nor speed of an adversary that had died or had been
\* destroyed by clear() before the step, and spawns no pickup for it.
C7_CallbacksCheckLiveness ==
    [][now' # now =>
          \A e \in DOMAIN enemy :
              ~Live(e) =>
                  /\ enemy'[e].health = enemy[e].health
                  /\ enemy'[e].speed = enemy[e].speed
                  /\ \A k \in DOMAIN gems' : gems'[k].from = e => k \in DOMAIN gems]_vars

\* the speed-restoring callbacks still pending for adversary e
PendingRestores(e) ==
    {k \in DOMAIN timers :
        timers[k].e = e /\ timers[k].kind \in {"restoreSpeed", "restoreSpeedIfAlive"}}

\* C8 (as claimed): a live adversary with no debuff expiry pending moves at
\* the speed it had before the first debuff, the speed of its kind.
C8_DebuffFullyUndone ==
    \A e \in DOMAIN enemy :
        (Live(e) /\ PendingRestores(e) = {}) =>
            enemy[e].speed = Speed(ENEMIES_DATA[enemy[e].type].speed)

----------------------------------------------------------------------------
(* Spawner specification: frames of any length, kills and clear            *)

MaxSpawnerUpdates == 8  \* EnemySpawner.update calls explored
MaxKills == 1             \* kills explored between the updates

\* mutant of increaseDifficulty: the three limits are missing
increaseDifficulty_unclamped(s) ==
    [s EXCEPT !.enemiesPerWave = @ + 1,
              !.spawnInterval = @ - 100,
              !.maxEnemiesOnScreen = @ + 20]

\* EnemySpawner.increaseDifficulty
increaseDifficulty(s) ==
    [s EXCEPT !.enemiesPerWave = Min(10, @ + 1),
              !.spawnInterval = Max(500, @ - 100),
              !.maxEnemiesOnScreen = Min(300, @ + 20)]

\* mutant of spawnCount: the wave is not clipped to the remaining capacity
spawnCount_unclipped(s, length) ==
    s.enemiesPerWave * (1 + (s.gameTime \div 60000))

\* mutant of spawnCount: the elapsed minutes do not enlarge the wave
spawnCount_noMultiplier(s, length) ==
    Min(s.enemiesPerWave, s.maxEnemiesOnScreen - length)

\* EnemySpawner.spawnWave: the size of the wave
spawnCount(s, length) ==
    Min(s.enemiesPerWave * (1 + (s.gameTime \div 60000)),
        s.maxEnemiesOnScreen - length)

\* mutant of selectEnemyType: the draw is made among all kinds of ENEMIES_DATA
selectEnemyType_anyKind(s) == DOMAIN ENEMIES_DATA

\* EnemySpawner.selectEnemyType: the kinds the draw can give (an elite only
\* with a positive elite chance and an elite in the list)
selectEnemyType(s) ==
    LET minions == SelectSeq(s.availableEnemies,
                             LAMBDA t : ENEMIES_DATA[t].rank = "minion")
        elites == SelectSeq(s.availableEnemies,
                            LAMBDA t : ENEMIES_DATA[t].rank = "elite")
        pool == IF Len(minions) > 0 THEN minions ELSE s.availableEnemies
    IN  SeqToSet(pool) \cup (IF s.gameTime > 0 THEN SeqToSet(elites) ELSE {})

\* mutant of underLimit: the population is not compared with the cap
underLimit_always(s, length) == TRUE

\* EnemySpawner.update: "only spawn if under the limit"
underLimit(s, length) == length < s.maxEnemiesOnScreen

\* the frame lengths explored (ms)
Deltas == {500, 60000}

\* EnemySpawner.update(time, delta, playerPos); types are the kinds drawn for
\* the wave, which spawnEnemy places at the least spawn distance on the
\* player's line (the adversaries of this model stand still)
SpawnerUpdate(delta) ==
    /\ LET timed == [spawner EXCEPT !.gameTime = @ + delta]
           kept == SelectSeq(roster, LAMBDA e : ~enemy[e].isDead)
           under == underLimit(timed, Len(kept))
           ticked == IF under THEN [timed EXCEPT !.spawnTimer = @ + delta]
                     ELSE timed
           wave == under /\ ticked.spawnTimer >= ticked.spawnInterval
           n == IF wave THEN Max(0, spawnCount(ticked, Len(kept))) ELSE 0
           spawned == IF wave THEN [ticked EXCEPT !.spawnTimer = 0] ELSE ticked
           later == [spawned EXCEPT !.difficultyTimer = @ + delta]
       IN  /\ \E types \in [1..n -> selectEnemyType(ticked)] :
                  enemy' = enemy \o [k \in 1..n |-> NewEnemy(types[k])]
           /\ roster' = kept \o [k \in 1..n |-> Len(enemy) + k]
           /\ spawner' = IF later.difficultyTimer >= 30000
                         THEN increaseDifficulty([later EXCEPT !.difficultyTimer = 0])
                         ELSE later
           /\ spawnLog' = [called |-> TRUE, count |-> spawnLog.count + 1,
                           wave |-> wave, spawned |-> n,
                           wanted |-> ticked.enemiesPerWave
                                        * (1 + (ticked.gameTime \div 60000)),
                           cap |-> ticked.maxEnemiesOnScreen]
    /\ tdLog' = <<>>
    /\ scene' = [scene EXCEPT !.enemyX =
                    [e \in DOMAIN enemy' |-> IF e \in DOMAIN @ THEN @[e]
                        ELSE scene.playerX + spawner.minSpawnDistance]]
    /\ UNCHANGED <<weaponVars, synVars, now, player, timers, timerCount,
                   directHits, pickVars, save>>

\* a kill between two updates: a lethal hit on the oldest live adversary
Kill ==
    /\ getEnemies # <<>>
    /\ directHits < MaxKills
    /\ EnemyTakeDamage(Head(getEnemies), enemy[Head(getEnemies)].health)

InitSpawner == InitBase

NextSpawner ==
    \/ \E delta \in Deltas :
            spawnLog.count < MaxSpawnerUpdates /\ SpawnerUpdate(delta)
    \/ Kill
    \/ SpawnerClear

SpecSpawner == InitSpawner /\ [][NextSpawner]_vars

MaxDifficultyUpdates == 11    \* EnemySpawner.update calls of a long session

\* the frame length of the long session: one difficulty period
LongDeltas == {30000}

\* a long session: the spawner is driven through its difficulty steps
NextDifficulty ==
    \/ \E delta \in LongDeltas :
            spawnLog.count < MaxDifficultyUpdates /\ SpawnerUpdate(delta)
    \/ Kill
    \/ SpawnerClear

SpecDifficulty == InitSpawner /\ [][NextDifficulty]_vars

\* C3: the number of live adversaries in the roster never exceeds
\* maxEnemiesOnScreen, after every update in particular.
C3_PopulationCapped ==
    Len(getEnemies) <= spawner.maxEnemiesOnScreen

\* C3 witness: the last update wanted a larger wave than the capacity left;
\* the wave was clipped and the roster is exactly at the cap of that update.
C3_Witness ==
    /\ spawnLog.called
    /\ spawnLog.wave
    /\ spawnLog.spawned > 0
    /\ spawnLog.wanted > spawnLog.spawned
    /\ Len(getEnemies) = spawnLog.cap

\* C34: an update that finds the live population at or above
\* maxEnemiesOnScreen spawns no adversary and leaves the spawn timer as it
\* was; an update that finds it below adds the frame's length to the timer
\* (and restarts it from 0 when it has reached spawnInterval).
C34_NoSpawnAtCap ==
    [][spawner'.gameTime # spawner.gameTime =>
          LET delta == spawner'.gameTime - spawner.gameTime
              population == Len(getEnemies)
          IN  IF population >= spawner.maxEnemiesOnScreen
              THEN /\ Len(enemy') = Len(enemy)
                   /\ roster' = getEnemies
                   /\ spawner'.spawnTimer = spawner.spawnTimer
              ELSE spawner'.spawnTimer =
                       IF spawner.spawnTimer + delta >= spawner.spawnInterval
                       THEN 0 ELSE spawner.spawnTimer + delta]_vars

\* C34 witness: the last update found the population at the cap it had then,
\* spawned nothing and left the timer at the 0 of the wave that filled the
\* screen.
C34_Witness ==
    /\ spawnLog.called
    /\ ~spawnLog.wave
    /\ Len(getEnemies) = spawnLog.cap
    /\ spawner.spawnTimer = 0

\* C18: an update whose spawn timer reaches spawnInterval with the population
\* below the cap spawns exactly min(enemiesPerWave * (1 + whole elapsed
\* minutes), maxEnemiesOnScreen - population) adversaries, any other update
\* spawns none; a fresh spawner has spawned nothing before 1500 ms of frames and
\* exactly 2 adversaries once the frames total 1500 ms.
C18_WaveSize ==
    /\ [](spawner.gameTime <= 1500 =>
              Len(enemy) = IF spawner.gameTime = 1500 THEN 2 ELSE 0)
    /\ [][spawner'.gameTime # spawner.gameTime =>
            LET delta == spawner'.gameTime - spawner.gameTime
                population == Len(getEnemies)
                due == /\ population < spawner.maxEnemiesOnScreen
                       /\ spawner.spawnTimer + delta >= spawner.spawnInterval
                size == Min(spawner.enemiesPerWave
                                * (1 + (spawner'.gameTime \div 60000)),
                            spawner.maxEnemiesOnScreen - population)
            IN  /\ Len(enemy') - Len(enemy) = IF due THEN size ELSE 0
                /\ Len(roster') = population + (IF due THEN size ELSE 0)
                /\ \A k \in DOMAIN roster' :
                      k > population =>
                          /\ roster'[k] > Len(enemy)
                          /\ ~enemy'[roster'[k]].isDead]_vars

\* C18 witness: three frames of 500 ms gave the fresh spawner its first wave of
\* 2; a frame of a minute later the wave is 2 * (1 + 1) = 4.
C18_Witness ==
    /\ spawner.gameTime = 61500
    /\ spawnLog.wave
    /\ spawnLog.spawned = 4
    /\ Len(enemy) = 6
    /\ Len(getEnemies) = 6

\* C19: spawnInterval stays in 500..1500, enemiesPerWave in 2..10 and
\* maxEnemiesOnScreen in 100..300; no step raises spawnInterval or lowers
\* enemiesPerWave or maxEnemiesOnScreen.
C19_DifficultyRanges ==
    /\ [](/\ spawner.spawnInterval >= 500 /\ spawner.spawnInterval <= 1500
          /\ spawner.enemiesPerWave >= 2 /\ spawner.enemiesPerWave <= 10
          /\ spawner.maxEnemiesOnScreen >= 100
          /\ spawner.maxEnemiesOnScreen <= 300)
    /\ [][/\ spawner'.spawnInterval <= spawner.spawnInterval
          /\ spawner'.enemiesPerWave >= spawner.enemiesPerWave
          /\ spawner'.maxEnemiesOnScreen >= spawner.maxEnemiesOnScreen]_vars

\* C19 witness: after eleven difficulty steps the three parameters sit at their
\* limits, which eleven unlimited steps would have passed (400, 13, 320).
C19_Witness ==
    /\ spawnLog.called
    /\ spawnLog.count = 11
    /\ spawner.gameTime = 11 * 30000
    /\ spawner.spawnInterval = 500
    /\ spawner.enemiesPerWave = 10
    /\ spawner.maxEnemiesOnScreen = 300

----------------------------------------------------------------------------
(* Pickup specification: the experience manager spawns, collects and       *)
(* clears pickups                                                          *)

MaxGems == 3    \* pickups spawned in one session

GemValues == {1, 3, 5}

\* mutant of collectGems: collected pickups are credited but stay in the list
collectGems_keep(gs, near) ==
    [gems |-> gs, credited |-> SelectSeq(gs, LAMBDA g : g.id \in near)]

\* ExperienceManager.update, the pass over the live pickups: those whose own
\* update reports them collected (near: within collectRadius of the player)
\* are credited and removed, the others stay
collectGems(gs, near) ==
    [gems |-> SelectSeq(gs, LAMBDA g : g.id \notin near),
     credited |-> SelectSeq(gs, LAMBDA g : g.id \in near)]

RECURSIVE SumValues(_)
SumValues(seq) == IF seq = <<>> THEN 0 ELSE Head(seq).value + SumValues(Tail(seq))

\* ExperienceManager.spawnGem(x, y, value)
SpawnGem(value) ==
    /\ gemsSpawned < MaxGems
    /\ gems' = Append(gems, [id |-> gemsSpawned + 1, value |-> value, from |-> 0])
    /\ gemsSpawned' = gemsSpawned + 1
    /\ UNCHANGED <<weaponVars, synVars, now, player, combatVars, spawnVars, xpLog,
                   scene, save>>

\* ExperienceManager.update: one pass, player.addExperience(value) for each
\* collected pickup
ExperienceUpdate(near) ==
    LET r == collectGems(gems, near)
    IN  /\ gems' = r.gems
        /\ xpLog' = xpLog \o [k \in DOMAIN r.credited |->
                                [id |-> r.credited[k].id, value |-> r.credited[k].value]]
        /\ player' = [player EXCEPT !.experience = @ + SumValues(r.credited)]
        /\ UNCHANGED <<weaponVars, synVars, now, combatVars, spawnVars, gemsSpawned,
                       scene, save>>

\* ExperienceManager.clear: destroy every pickup
ExperienceClear ==
    /\ gems # <<>>
    /\ gems' = <<>>
    /\ UNCHANGED <<weaponVars, synVars, now, player, combatVars, spawnVars,
                   gemsSpawned, xpLog, scene, save>>

NextPickup ==
    \/ \E value \in GemValues : SpawnGem(value)
    \/ \E near \in SUBSET {gems[k].id : k \in DOMAIN gems} : ExperienceUpdate(near)
    \/ ExperienceClear

SpecPickup == InitBase /\ [][NextPickup]_vars

GemIds(gs) == {gs[k].id : k \in DOMAIN gs}

\* C4: no pickup is credited twice, a credited pickup is no longer in the
\* list, the player's experience is the sum of the credited values, and a step
\* that credits pickups credits exactly the pickups it removes, each with its
\* own value.
C4_CreditedOnceAndRemoved ==
    /\ [](/\ \A i, j \in DOMAIN xpLog : xpLog[i].id = xpLog[j].id => i = j
          /\ GemIds(gems) \cap GemIds(xpLog) = {}
          /\ player.experience = SumValues(xpLog))
    /\ [][xpLog' # xpLog =>
            /\ SubSeq(xpLog', 1, Len(xpLog)) = xpLog
            /\ GemIds(xpLog') \ GemIds(xpLog) = GemIds(gems) \ GemIds(gems')
            /\ \A k \in DOMAIN gems :
                  gems[k].id \in GemIds(xpLog') =>
                      \E i \in DOMAIN xpLog' :
                          xpLog'[i].id = gems[k].id /\ xpLog'[i].value = gems[k].value]_vars

\* C4 witness: two pickups have been collected and credited while a third,
\* out of reach, is still in the list.
C4_Witness ==
    /\ Len(xpLog) = 2
    /\ Len(gems) = 1
    /\ gemsSpawned = 3
    /\ player.experience = xpLog[1].value + xpLog[2].value
    /\ player.experience > 0

----------------------------------------------------------------------------
(* Synergy specification: the roster is built and cleared by the weapon    *)
(* manager, the evaluator is handed the roster                             *)

SynKinds == {"wind_fire_wheels", "heaven_earth_circle", "red_armillary_sash",
             "ginseng_fruit"}

\* WeaponManager.addWeapon: construct the module (the constructor writes the
\* static Weapon.type) and push it
AddWeapon(kind) ==
    /\ Len(weapons) < MaxWeapons
    /\ weapons' = Append(weapons, WEAPON_MAP[kind])
    /\ staticType' = kind
    /\ sprites' = [orb   |-> sprites.orb + SpritesOf(WEAPON_MAP[kind]).orb,
                   sword |-> sprites.sword + SpritesOf(WEAPON_MAP[kind]).sword]
    /\ offer' = NoOffer
    /\ UNCHANGED <<synVars, now, player, upgradeCalls, lastUpdate, combatVars,
                   spawnVars, pickVars, scene, save>>

\* WeaponManager.clear: for every module, clear its projectile group and
\* destroy the sprites of its orbs; then empty the roster
ManagerClear ==
    /\ weapons # <<>>
    /\ weapons' = <<>>
    /\ sprites' = [sprites EXCEPT !.orb = @ - SpritesFrom(weapons, 1).orb]
    /\ offer' = NoOffer
    /\ scene' = [scene EXCEPT !.projectiles =
                    [k \in DOMAIN @ |-> [@[k] EXCEPT !.active = FALSE]]]
    /\ UNCHANGED <<synVars, now, player, staticType, upgradeCalls, lastUpdate,
                   combatVars, spawnVars, pickVars, save>>

\* a call checkSynergies(weapons) with the manager's roster
CheckSynergies ==
    /\ activeSynergies' = checkSynergies(activeSynergies, WeaponTypes(weapons))
    /\ synChecked' = [called |-> TRUE, kinds |-> SeqToSet(WeaponTypes(weapons)),
                      count |-> Len(weapons), prev |-> activeSynergies]
    /\ UNCHANGED <<weaponVars, now, player, combatVars, spawnVars, pickVars, scene, save>>

\* WeaponSynergyManager.clear
SynergyClear ==
    /\ activeSynergies # {}
    /\ activeSynergies' = {}
    /\ synChecked' = [called |-> FALSE]
    /\ UNCHANGED <<weaponVars, now, player, combatVars, spawnVars, pickVars, scene, save>>

NextSynergy ==
    \/ \E kind \in SynKinds : AddWeapon(kind)
    \/ ManagerClear
    \/ CheckSynergies
    \/ SynergyClear

SpecSynergy == InitBase /\ [][NextSynergy]_vars

----------------------------------------------------------------------------
(* Properties of the synergy evaluator                                     *)

\* every list of at most n kinds drawn from K
ListsOver(K, n) == UNION {[1..m -> K] : m \in 0..n}

\* the rules of the table that require two or more kinds / exactly one kind
MultiKindRules  == {i \in 1..Len(WEAPON_SYNERGIES) : Len(WEAPON_SYNERGIES[i].weapons) >= 2}
SingleKindRules == {i \in 1..Len(WEAPON_SYNERGIES) : Len(WEAPON_SYNERGIES[i].weapons) = 1}

\* C5: the active-rule set left by checkSynergies(W) is the one every other list
\* with the same set of kinds gives (any order, one kind possibly twice), even
\* with every rule active before the call; the getters read nothing but that set.
C5_OrderIndependent ==
    synChecked.called =>
        \A W2 \in ListsOver(synChecked.kinds, Cardinality(synChecked.kinds) + 1) :
            SeqToSet(W2) = synChecked.kinds =>
                checkSynergies(SynergyIds, W2) = activeSynergies

\* C5 witness: an evaluation of a roster of three modules, two of one kind, made
\* while another set of rules was active, has activated a rule.
C5_Witness ==
    /\ synChecked.called
    /\ synChecked.count = 3
    /\ Cardinality(synChecked.kinds) = 2
    /\ synChecked.prev # {}
    /\ synChecked.prev # activeSynergies
    /\ "immortal_protection" \in activeSynergies

\* C9: after checkSynergies(W) a rule requiring two or more kinds is active
\* exactly when every kind it requires is in W, whatever was active before.
C9_MultiKindRuleIff ==
    synChecked.called =>
        \A i \in MultiKindRules :
            WEAPON_SYNERGIES[i].id \in activeSynergies
                <=> SeqToSet(WEAPON_SYNERGIES[i].weapons) \subseteq synChecked.kinds

\* C9 witness: nezha_trinity was active, the roster was rebuilt without
\* wind_fire_wheels and re-evaluated: the rule and its bonuses are gone.
C9_Witness ==
    /\ synChecked.called
    /\ "nezha_trinity" \in synChecked.prev
    /\ {"heaven_earth_circle", "red_armillary_sash"} \subseteq synChecked.kinds
    /\ "wind_fire_wheels" \notin synChecked.kinds
    /\ "nezha_trinity" \notin activeSynergies
    /\ getDamageBonus(synChecked.prev) = 10
    /\ getArmorBonus(synChecked.prev) = 100
    /\ getDamageBonus(activeSynergies) = 0
    /\ getArmorBonus(activeSynergies) = 0

\* C10 (as claimed): a single-kind rule is active only when its kind is equipped
\* together with at least one other module.
C10_SingleKindNeedsCompany ==
    synChecked.called =>
        \A i \in SingleKindRules :
            WEAPON_SYNERGIES[i].id \in activeSynergies
                => /\ WEAPON_SYNERGIES[i].weapons[1] \in synChecked.kinds
                   /\ synChecked.count > 1

\* C11 (as claimed): every per-dimension getter returns the sum, over the active
\* rules, of that dimension's bonus plus the rule's all-stats bonus, the all-stats
\* bonus being multiplied by 10 for armor.
C11_AllStatsInEveryGetter ==
    LET Folded(field, factor) == SumBonus(activeSynergies, 1, field, factor)
    IN  /\ getDamageBonus(activeSynergies) = Folded("damageBonus", 1)
        /\ getAttackSpeedBonus(activeSynergies) = Folded("attackSpeedBonus", 1)
        /\ getRangeBonus(activeSynergies) = Folded("rangeBonus", 1)
        /\ getCritRateBonus(activeSynergies) = Folded("critRateBonus", 1)
        /\ getCritDamageBonus(activeSynergies) = Folded("critDamageBonus", 1)
        /\ getArmorBonus(activeSynergies) = Folded("armorBonus", 10)
        /\ getHealthRegenBonus(activeSynergies) = Folded("healthRegenBonus", 1)
        /\ getControlDurationBonus(activeSynergies) = Folded("controlDurationBonus", 1)

\* C12 (as claimed): after every change of the roster (addWeapon, clear) the
\* evaluator's active-rule set is the set of rules the current roster satisfies,
\* so no getter reports a bonus computed from an earlier roster.
C12_ActiveSetFollowsRoster ==
    /\ activeSynergies = checkSynergies({}, WeaponTypes(weapons))
    /\ Getters(activeSynergies) = Getters(checkSynergies({}, WeaponTypes(weapons)))

----------------------------------------------------------------------------
(* Weapon manager specification: modules are added and upgraded and the    *)
(* level-up offer is drawn                                                 *)

\* WeaponManager.availableWeapons, restricted to three of the kinds modelled,
\* in the constructor's order
availableWeapons == <<"wind_tamer", "fireproof_cloak", "seven_star_sword">>

\* WeaponManager.hasWeapon: some module is an instance of the class (every
\* concrete class extends Weapon directly)
hasWeapon(ws, kind) == \E i \in DOMAIN ws : ws[i].type = kind

\* an "upgrade" entry for module i: the texts are built from the module's own
\* instance field type and its next level
UpgradeOption(ws, i) ==
    [type |-> "upgrade", weapon |-> i, weaponClass |-> "none",
     nameKey |-> ws[i].type, level |-> ws[i].level + 1]

\* a "new" entry for a class: the texts are built from weaponInfo.type, the
\* static field every class inherits from Weapon
NewOption(kind, static) ==
    [type |-> "new", weapon |-> 0, weaponClass |-> kind, nameKey |-> static,
     level |-> 0]

\* mutant of options: modules at maxLevel get an "upgrade" entry too
options_noLevelGuard(ws, static) ==
    LET unowned == SelectSeq(availableWeapons, LAMBDA k : ~hasWeapon(ws, k))
    IN  [j \in 1..Len(ws) |-> UpgradeOption(ws, j)]
        \o [j \in 1..Len(unowned) |-> NewOption(unowned[j], static)]

\* the pool getUpgradeOptions builds: the modules below maxLevel in roster
\* order, then the available classes that are not equipped
options(ws, static) ==
    LET below == SelectSeq([i \in 1..Len(ws) |-> i],
                           LAMBDA i : ws[i].level < ws[i].maxLevel)
        unowned == SelectSeq(availableWeapons, LAMBDA k : ~hasWeapon(ws, k))
    IN  [j \in 1..Len(below) |-> UpgradeOption(ws, below[j])]
        \o [j \in 1..Len(unowned) |-> NewOption(unowned[j], static)]

\* what sort(() => Math.random() - 0.5).slice(0, 3) can keep of a pool of n
\* entries: the positions of the entries that come first, in their new order
Picks(n) ==
    {pick \in [1..Min(3, n) -> 1..n] :
        \A i, j \in DOMAIN pick : i # j => pick[i] # pick[j]}

\* WeaponManager.getUpgradeOptions
getUpgradeOptions(ws, static, pick) ==
    [j \in DOMAIN pick |-> options(ws, static)[pick[j]]]

\* a call getUpgradeOptions() on the manager
GetUpgradeOptions ==
    /\ \E pick \in Picks(Len(options(weapons, staticType))) :
           offer' = [called |-> TRUE,
                     options |-> getUpgradeOptions(weapons, staticType, pick)]
    /\ UNCHANGED <<weapons, staticType, upgradeCalls, lastUpdate, sprites,
                   synVars, now, player, combatVars, spawnVars, pickVars, scene,
                   save>>

ManagerKinds == {"fireproof_cloak", "seven_star_sword"}

MaxRoster == 2    \* modules equipped while offers are drawn

NextManager ==
    \/ \E kind \in ManagerKinds : Len(weapons) < MaxRoster /\ AddWeapon(kind)
    \/ \E i \in DOMAIN weapons : Upgrade(i)
    \/ GetUpgradeOptions

SpecManager == InitBase /\ [][NextManager]_vars

\* the size of the pool, counted from the roster
PoolSize ==
    Cardinality({i \in DOMAIN weapons : weapons[i].level < weapons[i].maxLevel})
    + Cardinality({k \in SeqToSet(availableWeapons) : ~hasWeapon(weapons, k)})

\* C13: getUpgradeOptions() returns exactly min(3, P) distinct entries, each an
\* "upgrade" entry for an equipped module below maxLevel or a "new" entry for an
\* available kind that is not equipped, where P counts those modules and kinds.
C13_OfferIsSliceOfPool ==
    offer.called =>
        LET o == offer.options
        IN  /\ Len(o) = Min(3, PoolSize)
            /\ \A i, j \in DOMAIN o : i # j => o[i] # o[j]
            /\ \A i \in DOMAIN o :
                  \/ /\ o[i].type = "upgrade"
                     /\ o[i].weapon \in DOMAIN weapons
                     /\ weapons[o[i].weapon].level < weapons[o[i].weapon].maxLevel
                  \/ /\ o[i].type = "new"
                     /\ o[i].weaponClass \in SeqToSet(availableWeapons)
                     /\ ~hasWeapon(weapons, o[i].weaponClass)

\* C13 witness: with one module at maxLevel and another kind equipped below it,
\* the pool holds two entries and the offer is those two, not three.
C13_Witness ==
    /\ offer.called
    /\ Len(weapons) = 2
    /\ weapons[1].level = weapons[1].maxLevel
    /\ weapons[2].level < weapons[2].maxLevel
    /\ PoolSize = 2
    /\ Len(offer.options) = 2
    /\ {offer.options[i].type : i \in DOMAIN offer.options} = {"upgrade", "new"}

\* C14 (as claimed): the texts of every "new" entry returned by
\* getUpgradeOptions() are those of the kind the entry offers, whichever modules
\* were constructed before.
C14_NewEntryNamesItsKind ==
    offer.called =>
        \A i \in DOMAIN offer.options :
            offer.options[i].type = "new" =>
                offer.options[i].nameKey = offer.options[i].weaponClass

----------------------------------------------------------------------------
(* Clearing specification: an equipped roster fires at an adversary, the   *)
(* clock runs, and the manager is cleared at some moment                   *)

ClearHorizon == 5600    \* the clock of this specification stops here (ms)

ClearLoadouts == {<<SevenStarSword, FireproofCloak>>,
                  <<ThunderDrum, PurpleGoldGourd>>}

InitClear ==
    \E ws \in ClearLoadouts : InitWith(ws, <<NewEnemy("bear_elite")>>)

NextClear ==
    \/ \E c \in FireChoices(getEnemies) :
            WeaponManagerUpdate([i \in DOMAIN weapons |-> c])
    \/ ClockUpdate(400, ClearHorizon)
    \/ ManagerClear

SpecClear == InitClear /\ [][NextClear]_vars

\* C15 (as claimed): after WeaponManager.clear() the roster is empty and every
\* live effect of the modules that were equipped - orbiters and orbiting swords
\* included - has been destroyed.
C15_ClearDestroysEveryEffect ==
    weapons = <<>> => sprites.orb = 0 /\ sprites.sword = 0

\* C16 (as claimed): once WeaponManager.clear() has run, nothing the cleared
\* modules scheduled damages an adversary, changes an adversary's speed or
\* changes the player's health.
C16_InertAfterClear ==
    [][weapons = <<>> =>
            /\ tdLog' = <<>>
            /\ \A e \in DOMAIN enemy :
                  /\ enemy'[e].health = enemy[e].health
                  /\ enemy'[e].speed = enemy[e].speed
            /\ player'.health = player.health]_vars

----------------------------------------------------------------------------
(* Frame specification: GameScene.update as the specification orders it -  *)
(* the scene clock runs the due callbacks, then spawner.update, then the   *)
(* live adversaries are collected and handed to weaponManager.update       *)

TickHorizon == 3200    \* the clock of this specification stops here (ms)

\* the frame lengths explored (ms)
FrameDeltas == {400, 800}

\* the adversaries the frame's spawner.update created
JustSpawned ==
    IF spawnLog.called THEN (Len(enemy) - spawnLog.spawned + 1)..Len(enemy) ELSE {}

\* one frame: the clock, then spawner.update (pending while the spawner has not
\* seen the time the clock has reached), then weaponManager.update with the
\* adversaries collected after it
NextTick ==
    LET SpawnPending == spawner.gameTime < now
        AttackDone == lastUpdate.called /\ lastUpdate.time = now
    IN  \/ \E dt \in FrameDeltas :
                /\ (AttackDone \/ now = 0) /\ ~SpawnPending
                /\ ClockUpdate(dt, TickHorizon)
        \/ SpawnPending /\ SpawnerUpdate(now - spawner.gameTime)
        \/ \E c \in FireChoices(getEnemies) :
                /\ now > 0 /\ ~SpawnPending /\ ~AttackDone
                /\ WeaponManagerUpdate([i \in DOMAIN weapons |-> c])

SpecTick == InitWith(<<ThunderDrum>>, <<>>) /\ [][NextTick]_vars

\* C21 (as claimed): the frame's spawner update precedes its attack resolution,
\* and no adversary spawned by that spawner update is targeted or damaged by
\* the attack resolution of the same frame.
C21_SpawnedNotTargetedSameTick ==
    [][lastUpdate' # lastUpdate =>
            /\ spawner.gameTime = now
            /\ \A i \in DOMAIN tdLog' : tdLog'[i].e \notin JustSpawned
            /\ \A k \in DOMAIN timers' :
                  timers'[k].id > timerCount => timers'[k].e \notin JustSpawned]_vars

----------------------------------------------------------------------------
(* Projectile specification: one projectile module, adversaries standing   *)
(* on the player's line, frames of 100 ms with one WeaponManager.update    *)
(* each, and a player who starts to move once                              *)

ShotHorizon == 5000    \* the clock of this specification stops here (ms)

\* the module equipped and where the adversaries stand
ShotStarts ==
    {[ws |-> <<TwinBlades>>, xs |-> xs] : xs \in [1..3 -> {100, 300}]}
        \cup {[ws |-> <<CrescentBlade>>, xs |-> <<>>],
              [ws |-> <<HeavenEarthCircle>>, xs |-> <<300>>]}

\* the player's input sets the velocity of the player's sprite
PlayerMove(v) ==
    /\ scene.playerV = 0
    /\ scene' = [scene EXCEPT !.playerV = v]
    /\ UNCHANGED <<weaponVars, synVars, now, player, combatVars, spawnVars, pickVars, save>>

NextShot ==
    LET AttackDone == now = 0 \/ (lastUpdate.called /\ lastUpdate.time = now)
    IN  \/ AttackDone /\ ClockUpdate(100, ShotHorizon)
        \/ \E v \in {0 - 600, 200} : AttackDone /\ PlayerMove(v)
        \/ /\ ~AttackDone
           /\ WeaponManagerUpdate([i \in DOMAIN weapons |->
                    CHOOSE c \in FireChoices(getEnemies) : TRUE])

SpecShot ==
    /\ \E st \in ShotStarts :
           InitAt(st.ws, [i \in DOMAIN st.xs |-> NewEnemy("bear_elite")], st.xs)
    /\ [][NextShot]_vars

\* the distance of adversary e to the player
Distance(e) ==
    IF scene.enemyX[e] < scene.playerX THEN scene.playerX - scene.enemyX[e]
    ELSE scene.enemyX[e] - scene.playerX

\* the n live adversaries closest to the player, the earlier-inserted first
\* among those equally far
Closest(n) ==
    LET live == {e \in SeqToSet(roster) : ~enemy[e].isDead}
        before(f, e) == Distance(f) < Distance(e)
                            \/ (Distance(f) = Distance(e) /\ f < e)
    IN  {e \in live : Cardinality({f \in live : before(f, e)}) < n}

\* C22 (as claimed): the projectiles a firing aims at adversaries are aimed at
\* live ones, and at the N closest to the player where the firing engages N,
\* the earlier-inserted adversary winning a tie.
C22_AimsAtClosestLive ==
    [][lastUpdate' # lastUpdate =>
          LET aimed == {k \in DOMAIN scene'.projectiles \ DOMAIN scene.projectiles :
                            scene'.projectiles[k].target # 0}
              targets == {scene'.projectiles[k].target : k \in aimed}
          IN  /\ \A e \in targets : ~enemy[e].isDead
              /\ targets = Closest(Cardinality(targets))]_vars

\* C23 (as claimed): every projectile carries a defined, positive remaining
\* pierce count from its creation for as long as it lives.
C23_PierceBudgetDefined ==
    \A k \in DOMAIN scene.projectiles :
        /\ Len(scene.projectiles[k].piercing) = 1
        /\ scene.projectiles[k].active => scene.projectiles[k].piercing[1] > 0

C25_ReturnSeeksPlayer ==
    [][\A k \in DOMAIN scene'.projectiles :
          LET p == scene'.projectiles[k]
              steered == IF k \in DOMAIN scene.projectiles
                         THEN p.seeks > scene.projectiles[k].seeks ELSE p.seeks > 0
          IN  /\ steered => p.seekTo = scene'.playerX
              /\ (p.active /\ p.seeks > 0) =>
                      (p.x - scene'.playerX >= 30 \/ scene'.playerX - p.x >= 30)]_vars

\* C26 (as claimed): a WeaponManager.update that finds no live adversary creates
\* no projectile and no pending effect and changes no adversary, whatever fires.
C26_NoTargetNoEffect ==
    [][(lastUpdate' # lastUpdate /\ getEnemies = <<>>) =>
            /\ scene' = scene
            /\ timers' = timers
            /\ enemy' = enemy]_vars

----------------------------------------------------------------------------
(* Failure specification: a roster of two modules whose updates may throw  *)

\* WeaponManager.update in which the update of module k throws on entry: the
\* forEach has no handler, so the modules before k have been updated, k and the
\* modules after it have not, and the error leaves update
WeaponManagerUpdateThrows(k, cs) ==
    LET r == UpdateAll([wd |-> World, ws |-> SubSeq(weapons, 1, k - 1),
                        log |-> <<>>], 1, now, getEnemies, cs)
    IN  /\ weapons' = r.ws \o SubSeq(weapons, k, Len(weapons))
        /\ lastUpdate' = [called |-> TRUE, time |-> now, calls |-> r.log,
                          threw |-> k]
        /\ Commit(r.wd)
        /\ UNCHANGED <<synVars, now, staticType, upgradeCalls, offer, sprites,
                       roster, directHits, spawnVars, xpLog, save>>

NextFault ==
    \/ \E c \in FireChoices(getEnemies) :
            WeaponManagerUpdate([i \in DOMAIN weapons |-> c])
    \/ \E c \in FireChoices(getEnemies), k \in DOMAIN weapons :
            WeaponManagerUpdateThrows(k, [i \in DOMAIN weapons |-> c])
    \/ ClockUpdate(400, ClearHorizon)

SpecFault == InitClear /\ [][NextFault]_vars

\* C27 (as claimed): in every WeaponManager.update, every module of the roster
\* other than one whose update throws has its update called.
C27_FailureIsolated ==
    [][lastUpdate' # lastUpdate =>
          LET failed == IF "threw" \in DOMAIN lastUpdate' THEN 1 ELSE 0
          IN  Len(lastUpdate'.calls) = Len(weapons) - failed]_vars

----------------------------------------------------------------------------
(* Reward specification: the spawner fills the roster, adversaries are     *)
(* killed one at a time and the scene counts the kills                     *)

MaxRewardUpdates == 36    \* EnemySpawner.update calls of this specification

\* the scene's bookkeeping of one kill: the kill is counted, and when the kills
\* since the last reward reach killsRequiredForReward a reward selection is
\* emitted (rewards counts them) and that counter restarts
countKill(sc) ==
    LET counted == [sc EXCEPT !.killCount = @ + 1, !.killsSinceLastReward = @ + 1]
    IN  IF counted.killsSinceLastReward >= counted.killsRequiredForReward
        THEN [counted EXCEPT !.killsSinceLastReward = 0, !.rewards = @ + 1]
        ELSE counted

\* a lethal hit on the oldest live adversary, counted by the scene
CountedKill ==
    /\ getEnemies # <<>>
    /\ LET e == Head(getEnemies)
           wd == takeDamage(World, e, enemy[e].health)
       IN  Commit([wd EXCEPT !.scene = countKill(@)])
    /\ UNCHANGED <<weaponVars, synVars, now, roster, directHits, spawnVars, xpLog, save>>

NextReward ==
    \/ spawnLog.count < MaxRewardUpdates /\ SpawnerUpdate(500)
    \/ CountedKill

SpecReward == InitBase /\ [][NextReward]_vars

\* C29 (as claimed): a kill makes a reward selection due exactly when it is the
\* 10th kill since the last one, and the count since the last reward restarts
\* from 0 then.
C29_RewardEveryTenKills ==
    [][scene'.killCount = scene.killCount + 1 =>
          /\ (scene'.rewards = scene.rewards + 1) <=> (scene.killsSinceLastReward + 1 = 10)
          /\ (scene'.rewards = scene.rewards + 1) => scene'.killsSinceLastReward = 0
          /\ scene'.rewards \in {scene.rewards, scene.rewards + 1}]_vars

----------------------------------------------------------------------------
(* Shop specification: gold is earned, permanent upgrades are bought and   *)
(* reset in the save store                                                 *)

MaxGold == 600    \* gold earned in all (held or paid for upgrades)

\* mutant of resetPermanentUpgrades: the refund leaves out the first purchase
\* of every upgrade
resetPermanentUpgrades_fromLevelOne(state) ==
    LET RECURSIVE paid(_, _), refundFrom(_)
        paid(item, i) ==
            IF i < state[item.id] THEN cost(item, i) + paid(item, i + 1) ELSE 0
        refundFrom(k) ==
            IF k > Len(PERMANENT_UPGRADES) THEN 0
            ELSE paid(PERMANENT_UPGRADES[k], 1) + refundFrom(k + 1)
        refund == refundFrom(1)
    IN  [state EXCEPT !.attack = 0, !.health = 0, !.armor = 0, !.luck = 0,
                      !.speed = 0, !.totalGold = @ + refund,
                      !.spent = 0, !.refunded = refund]

\* resetPermanentUpgrades: the refund is the sum of cost(i) for every level i
\* below the level held, over all upgrades; then every level is 0
resetPermanentUpgrades(state) ==
    LET RECURSIVE paid(_, _), refundFrom(_)
        paid(item, i) ==
            IF i < state[item.id] THEN cost(item, i) + paid(item, i + 1) ELSE 0
        refundFrom(k) ==
            IF k > Len(PERMANENT_UPGRADES) THEN 0
            ELSE paid(PERMANENT_UPGRADES[k], 0) + refundFrom(k + 1)
        refund == refundFrom(1)
    IN  [state EXCEPT !.attack = 0, !.health = 0, !.armor = 0, !.luck = 0,
                      !.speed = 0, !.totalGold = @ + refund,
                      !.spent = 0, !.refunded = refund]

\* addGold(amount)
AddGold(amount) ==
    /\ save.totalGold + save.spent + amount <= MaxGold
    /\ save' = [save EXCEPT !.totalGold = @ + amount]
    /\ UNCHANGED <<weaponVars, synVars, now, player, combatVars, spawnVars,
                   pickVars, scene>>

\* upgradePermanent(upgradeId)
UpgradePermanent(upgradeId) ==
    /\ save' = upgradePermanent(save, upgradeId)
    /\ UNCHANGED <<weaponVars, synVars, now, player, combatVars, spawnVars,
                   pickVars, scene>>

ResetPermanentUpgrades ==
    /\ save' = resetPermanentUpgrades(save)
    /\ UNCHANGED <<weaponVars, synVars, now, player, combatVars, spawnVars,
                   pickVars, scene>>

NextShop ==
    \/ \E amount \in {100, 250} : AddGold(amount)
    \/ \E k \in DOMAIN PERMANENT_UPGRADES :
           UpgradePermanent(PERMANENT_UPGRADES[k].id)
    \/ ResetPermanentUpgrades

SpecShop == InitBase /\ [][NextShop]_vars

\* C30: a reset leaves every permanent upgrade at level 0 and adds to totalGold
\* exactly the gold paid by the purchases since the last reset.
C30_ResetRefundsEverything ==
    [][save'.refunded # save.refunded \/ save'.spent < save.spent =>
          /\ \A k \in DOMAIN PERMANENT_UPGRADES : save'[PERMANENT_UPGRADES[k].id] = 0
          /\ save'.totalGold = save.totalGold + save.spent
          /\ save'.refunded = save.spent]_vars

\* C30 witness: a reset has refunded the two purchases of one upgrade and one
\* purchase of another, and the gold is what was earned.
C30_Witness ==
    /\ save.refunded = cost(PERMANENT_UPGRADES[1], 0) + cost(PERMANENT_UPGRADES[1], 1)
                            + cost(PERMANENT_UPGRADES[2], 0)
    /\ save.spent = 0
    /\ save.attack = 0 /\ save.health = 0
    /\ save.totalGold = 350

(***************************************************************************)
(* SpecUpgrade: purchases of permanent upgrades on a rehydrated store      *)
(***************************************************************************)
MaxPurse == 1100    \* the most gold a persisted store holds

\* persist.merge at start-up: the persisted store replaces the default one;
\* a persisted store holds levels the purchases can reach and the gold left
Rehydrate ==
    /\ save = NewSave(0)
    /\ \E attack \in {0, 9, 10}, speed \in {0, 4, 5},
          totalGold \in {0, 90, 500, MaxPurse} :
          LET persisted == [NewSave(totalGold) EXCEPT !.attack = attack,
                                                     !.speed = speed]
          IN  save' = [persisted EXCEPT
                          !.spent = resetPermanentUpgrades(persisted).refunded]
    /\ UNCHANGED <<weaponVars, synVars, now, player, combatVars, spawnVars,
                   pickVars, scene>>

NextUpgrade ==
    \/ Rehydrate
    \/ \E upgradeId \in {"attack", "health", "armor", "luck", "speed", "unknown"} :
           UpgradePermanent(upgradeId)

SpecUpgrade == InitBase /\ [][NextUpgrade]_vars

\* the levels and the gold of a store
Holdings(state) ==
    [f \in {"totalGold", "attack", "health", "armor", "luck", "speed"} |-> state[f]]

\* C31: upgradePermanent(id) returns true exactly when id is a known upgrade
\* whose level is below its maxLevel and totalGold covers cost(level); it then
\* takes exactly cost(level) from totalGold and raises that level alone by 1;
\* otherwise it returns false with levels and gold unchanged; no level ever
\* exceeds its maxLevel and totalGold is never negative.
C31_UpgradeGuarded ==
    /\ [](/\ save.totalGold >= 0
          /\ \A k \in DOMAIN PERMANENT_UPGRADES :
                save[PERMANENT_UPGRADES[k].id] <= PERMANENT_UPGRADES[k].maxLevel)
    /\ [][save'.asked # "none" =>
            LET id == save'.asked
                known == \E k \in DOMAIN PERMANENT_UPGRADES :
                             PERMANENT_UPGRADES[k].id = id
                item == CHOOSE u \in {PERMANENT_UPGRADES[k] :
                                         k \in DOMAIN PERMANENT_UPGRADES} : u.id = id
                ok == /\ known
                      /\ save[id] < item.maxLevel
                      /\ save.totalGold >= cost(item, save[id])
            IN  /\ save'.returned = ok
                /\ ok => Holdings(save') =
                            [Holdings(save) EXCEPT
                                !.totalGold = @ - cost(item, save[id]),
                                ![id] = @ + 1]
                /\ ~ok => Holdings(save') = Holdings(save)]_vars

\* C31 witness: the last level of speed was bought for 500 of the 1100 gold,
\* and the next call was refused at maxLevel although the gold covers the cost
C31_Witness ==
    /\ save.asked = "speed" /\ save.returned = FALSE
    /\ save.speed = 5
    /\ save.totalGold = MaxPurse - cost(PERMANENT_UPGRADES[5], 4)
    /\ save.totalGold >= cost(PERMANENT_UPGRADES[5], 5)

(***************************************************************************)
(* SpecAudio: sound effects of the AudioManager                            *)
(***************************************************************************)
MaxSfxCalls == 4

\* AudioManager.stopMusic: the sound held is stopped and destroyed, the lock
\* is released in any case
stopMusic(a) ==
    IF a.music # 0
    THEN [a EXCEPT !.sounds[a.music].state = "destroyed", !.music = 0,
                   !.isPlayerSoundEnabled = FALSE]
    ELSE [a EXCEPT !.isPlayerSoundEnabled = FALSE]

\* mutant of playSfx: the lock is not looked at
playSfx_noLock(a, effect, outcome) ==
    LET called == [a EXCEPT !.calls = @ + 1, !.outcome = outcome]
        id == Len(a.sounds) + 1
        added == [called EXCEPT !.isPlayerSoundEnabled = TRUE, !.music = id,
                     !.sounds = Append(@, [effect |-> effect, state |-> "added"])]
    IN  IF ~a.musicEnabled THEN called
        ELSE CASE outcome = "addThrows" ->
                      stopMusic([called EXCEPT !.isPlayerSoundEnabled = TRUE])
               [] outcome = "playThrows" -> stopMusic(added)
               [] OTHER -> [added EXCEPT !.sounds[id].state = "playing",
                                         !.started = @ + 1]

\* AudioManager.playSfx(effect): nothing when music is disabled or the lock is
\* held; else the lock is taken, the sound added and played; sound.add or
\* play throwing ends in stopMusic
playSfx(a, effect, outcome) ==
    LET called == [a EXCEPT !.calls = @ + 1, !.outcome = outcome]
        id == Len(a.sounds) + 1
        added == [called EXCEPT !.isPlayerSoundEnabled = TRUE, !.music = id,
                     !.sounds = Append(@, [effect |-> effect, state |-> "added"])]
    IN  IF ~a.musicEnabled \/ a.isPlayerSoundEnabled THEN called
        ELSE CASE outcome = "addThrows" ->
                      stopMusic([called EXCEPT !.isPlayerSoundEnabled = TRUE])
               [] outcome = "playThrows" -> stopMusic(added)
               [] OTHER -> [added EXCEPT !.sounds[id].state = "playing",
                                         !.started = @ + 1]

AudioStep(a) ==
    /\ scene' = [scene EXCEPT !.audioManager = a]
    /\ UNCHANGED <<weaponVars, synVars, now, player, combatVars, spawnVars,
                   pickVars, save>>

PlaySfx(effect, outcome) ==
    /\ scene.audioManager.calls < MaxSfxCalls
    /\ AudioStep(playSfx(scene.audioManager, effect, outcome))

\* the "complete" or the "error" event of a playing sound: the handler of
\* playSfx calls stopMusic; a sound that has completed plays no more
SoundEnds(id, event) ==
    /\ scene.audioManager.sounds[id].state = "playing"
    /\ LET stopped == stopMusic(scene.audioManager)
       IN  AudioStep(IF stopped.sounds[id].state = "playing"
                     THEN [stopped EXCEPT !.sounds[id].state = event]
                     ELSE stopped)

StopMusic == AudioStep(stopMusic(scene.audioManager))

\* the music switch of the settings page
SetMusicEnabled(checked) ==
    AudioStep([scene.audioManager EXCEPT !.musicEnabled = checked])

NextAudio ==
    \/ \E effect \in {"player_hit", "level_up"},
          outcome \in {"plays", "addThrows", "playThrows"} :
           PlaySfx(effect, outcome)
    \/ \E id \in DOMAIN scene.audioManager.sounds,
          event \in {"complete", "error"} : SoundEnds(id, event)
    \/ StopMusic
    \/ \E checked \in BOOLEAN : SetMusicEnabled(checked)

SpecAudio == InitBase /\ [][NextAudio]_vars

\* the sounds that are playing
Sounding(a) == {id \in DOMAIN a.sounds : a.sounds[id].state = "playing"}

PacingFrames == 2100    \* EnemySpawner.update calls of the session

\* the frame length of a display at 30 frames a second (ms)
SteadyDeltas == {33}

NextPacing ==
    \E delta \in SteadyDeltas :
        spawnLog.count < PacingFrames /\ SpawnerUpdate(delta)

SpecPacing == InitSpawner /\ [][NextPacing]_vars

\* the difficulty steps applied so far: each adds 20 to maxEnemiesOnScreen,
\* which starts at 100 and is limited only after ten steps
DifficultySteps ==
    (spawner.maxEnemiesOnScreen - NewSpawner(<<>>).maxEnemiesOnScreen) \div 20

\* C33: after frames that total T ms of session time, exactly
\* floor(T / 30000) difficulty steps have been applied, whatever the frame
\* lengths.
C33_StepEveryThirtySeconds ==
    spawner.gameTime < 300000 => DifficultySteps = spawner.gameTime \div 30000

(***************************************************************************)
(* SpecLevel: spawners of levels with different lists of kinds             *)
(***************************************************************************)
MaxLevelUpdates == 4    \* EnemySpawner.update calls explored

\* the lists of kinds a level can hand to its spawner: none, minions only,
\* elites only, both
LevelLists ==
    {<<>>, <<"wolf_minion">>, <<"snake_elite", "bear_elite">>,
     <<"wolf_minion", "bear_elite", "snake_elite">>}

\* new EnemySpawner(scene, availableEnemies), before the first frame
NewLevel(availableEnemies) ==
    /\ ~spawnLog.called
    /\ spawner = NewSpawner(<<>>)
    /\ spawner' = NewSpawner(availableEnemies)
    /\ UNCHANGED <<weaponVars, synVars, now, player, combatVars, spawnLog,
                   pickVars, scene, save>>

NextLevel ==
    \/ \E availableEnemies \in LevelLists : NewLevel(availableEnemies)
    \/ \E delta \in {500, 1500} :
            spawnLog.count < MaxLevelUpdates /\ SpawnerUpdate(delta)
    \/ Kill

SpecLevel == InitSpawner /\ [][NextLevel]_vars

\* the kinds of the list with the rank
OfRank(list, rank) == {t \in SeqToSet(list) : ENEMIES_DATA[t].rank = rank}

\* C35: every adversary an update spawns has a kind of the spawner's list (the
\* level's list, or the default kind when the level's list is empty): an
\* elite of the list, or a minion of the list, or any kind of the list when
\* the list has no minion; the kind is always a defined one.
C35_KindFromLevelList ==
    [][\A e \in DOMAIN enemy' \ DOMAIN enemy :
          LET list == spawner.availableEnemies
              t == enemy'[e].type
          IN  /\ t \in DOMAIN ENEMIES_DATA
              /\ list # <<>>
              /\ t \in SeqToSet(list)
              /\ \/ t \in OfRank(list, "elite")
                 \/ t \in OfRank(list, "minion")
                 \/ OfRank(list, "minion") = {}]_vars

\* C35 witness: a level without minions has spawned a wave of two different
\* elites, drawn from the full list
C35_Witness ==
    /\ spawner.availableEnemies = <<"snake_elite", "bear_elite">>
    /\ spawnLog.called /\ spawnLog.wave
    /\ Len(enemy) = 2
    /\ enemy[1].type = "bear_elite" /\ enemy[2].type = "snake_elite"

\* C36: every orbiting module of the roster has as many live orbiters as its
\* orbCount says, after construction and after every upgrade.
C36_OrbitersMatchCount ==
    \A i \in DOMAIN weapons :
        "orbCount" \in DOMAIN weapons[i].t =>
            weapons[i].t.orbs = weapons[i].t.orbCount

\* C37: the player's max health changes only when a GinsengFruit reaches
\* level 2 (by 20) or level 4 (by 40); no other upgrade and no firing changes
\* it.
C37_BonusOncePerLevel ==
    [][LET reached == {weapons'[i].level :
                          i \in {j \in DOMAIN weapons \cap DOMAIN weapons' :
                                    /\ weapons'[j].type = "ginseng_fruit"
                                    /\ weapons'[j].level # weapons[j].level}}
           bonus == IF 2 \in reached THEN 20 ELSE IF 4 \in reached THEN 40 ELSE 0
       IN  player'.maxHealth = player.maxHealth + HP(bonus)]_vars

\* C38: for every list W of kinds among the kinds of the roster W' last
\* evaluated (each kind once, in any order), every rule active after
\* checkSynergies(W) is active after checkSynergies(W'), and no getter returns
\* less for W' than for W.
C38_MoreKindsKeepSynergies ==
    synChecked.called =>
        LET more == Getters(activeSynergies)
            fewer == {checkSynergies({}, W) :
                         W \in UNION {Orderings(S) : S \in SUBSET synChecked.kinds}}
        IN  \A active \in fewer :
                /\ active \subseteq activeSynergies
                /\ LET less == Getters(active)
                   IN  \A g \in DOMAIN less : less[g] <= more[g]

\* C38 witness: the roster evaluated holds ginseng_fruit and two other kinds;
\* immortal_protection is active as it is for ginseng_fruit alone, with its
\* bonus in the getter.
C38_Witness ==
    /\ synChecked.called
    /\ synChecked.count = 3
    /\ synChecked.kinds = {"ginseng_fruit", "heaven_earth_circle", "red_armillary_sash"}
    /\ checkSynergies({}, <<"ginseng_fruit">>) = {"immortal_protection"}
    /\ activeSynergies = {"immortal_protection"}
    /\ getHealthRegenBonus(activeSynergies) = 500

(***************************************************************************)
(* SpecDraw: the weighted draws of reward weapons and elixirs              *)
(***************************************************************************)
MaxCount == 6    \* the largest count asked of getRandomWeapons

\* getRarityWeight
getRarityWeight(rarity) ==
    [common |-> 50, rare |-> 30, epic |-> 15, legendary |-> 5][rarity]

\* WEAPONS, restricted to five entries: the id and the rarity, in key order
WEAPONS ==
    <<[id |-> "golden_staff", rarity |-> "common"],
      [id |-> "fire_lance", rarity |-> "rare"],
      [id |-> "fireproof_cloak", rarity |-> "rare"],
      [id |-> "wind_tamer", rarity |-> "epic"],
      [id |-> "ruyi_staff", rarity |-> "legendary"]>>

\* ELIXIRS, restricted to three entries
ELIXIRS ==
    <<[id |-> "peach_of_immortality", rarity |-> "epic"],
      [id |-> "golden_elixir", rarity |-> "rare"],
      [id |-> "jade_dew", rarity |-> "common"]>>

\* the pool of both functions: every key with the weight of its rarity
Weighted(data) ==
    [i \in DOMAIN data |->
        [item |-> data[i].id, weight |-> getRarityWeight(data[i].rarity)]]

\* available.reduce((sum, item) => sum + item.weight, 0)
RECURSIVE totalWeight(_)
totalWeight(available) ==
    IF available = <<>> THEN 0
    ELSE Head(available).weight + totalWeight(Tail(available))

\* the for loop of one draw: the weights are taken from random in turn, the
\* first index that leaves it at or below 0 is selected; 0 stands for the -1
\* of no selection
RECURSIVE selectedIndex(_, _, _)
selectedIndex(available, random, i) ==
    IF i > Len(available) THEN 0
    ELSE IF random - available[i].weight <= 0 THEN i
    ELSE selectedIndex(available, random - available[i].weight, i + 1)

\* mutant of splice: nothing is removed
splice_nothing(available, index) == available

\* available.splice(index, 1)
splice(available, index) ==
    SubSeq(available, 1, index - 1) \o SubSeq(available, index + 1, Len(available))

\* the while loop: what it can return (returns TRUE), and the selection it
\* can be left with for ever when a draw selects nothing (returns FALSE);
\* Math.random() * totalWeight is taken at the whole numbers below totalWeight
RECURSIVE select(_, _, _)
select(available, selected, count) ==
    IF Len(selected) < count /\ Len(available) > 0
    THEN LET indexes == {selectedIndex(available, random, 1) :
                            random \in 0..(totalWeight(available) - 1)}
         IN  UNION {IF index = 0
                    THEN {[selected |-> selected, returns |-> FALSE]}
                    ELSE select(splice(available, index),
                                Append(selected, available[index].item), count) :
                    index \in indexes}
    ELSE {[selected |-> selected, returns |-> TRUE]}

getRandomWeapons(count) == select(Weighted(WEAPONS), <<>>, count)

getRandomElixirs(count) == select(Weighted(ELIXIRS), <<>>, count)

\* a call of one of the two functions by the reward screen
GetRandom(kind, count) ==
    /\ \E result \in IF kind = "weapons" THEN getRandomWeapons(count)
                      ELSE getRandomElixirs(count) :
           scene' = [scene EXCEPT !.drawn =
                        [called |-> TRUE, kind |-> kind, count |-> count,
                         selected |-> result.selected,
                         returns |-> result.returns]]
    /\ UNCHANGED <<weaponVars, synVars, now, player, combatVars, spawnVars,
                   pickVars, save>>

NextDraw ==
    \E kind \in {"weapons", "elixirs"}, count \in 0..MaxCount :
        GetRandom(kind, count)

SpecDraw == InitBase /\ [][NextDraw]_vars

\* the sub-sequences of a pool: what is left of it after some draws
RECURSIVE Remainders(_)
Remainders(pool) ==
    IF pool = <<>> THEN {<<>>}
    ELSE LET rest == Remainders(Tail(pool))
         IN  rest \cup {<<Head(pool)>> \o r : r \in rest}

\* the weight of the first i entries
RECURSIVE Cumulative(_, _)
Cumulative(available, i) ==
    IF i = 0 THEN 0 ELSE available[i].weight + Cumulative(available, i - 1)

\* C39: a call of getRandomWeapons(n) or getRandomElixirs(n) returns, and
\* returns exactly min(n, pool size) pairwise different items of the pool;
\* each draw selects, among the items not yet chosen, the first one whose
\* cumulative weight reaches the random point below the total weight.
C39_WeightedWithoutReplacement ==
    scene.drawn.called =>
        LET pool == Weighted(IF scene.drawn.kind = "weapons" THEN WEAPONS
                             ELSE ELIXIRS)
            selected == scene.drawn.selected
        IN  /\ scene.drawn.returns
            /\ Len(selected) = Min(scene.drawn.count, Len(pool))
            /\ \A i, j \in DOMAIN selected : i # j => selected[i] # selected[j]
            /\ \A i \in DOMAIN selected :
                   \E k \in DOMAIN pool : pool[k].item = selected[i]
            /\ \A available \in Remainders(pool) \ {<<>>} :
                   \A random \in 0..(totalWeight(available) - 1) :
                       LET index == selectedIndex(available, random, 1)
                       IN  /\ index \in DOMAIN available
                           /\ Cumulative(available, index) >= random
                           /\ \A i \in 1..(index - 1) :
                                  Cumulative(available, i) < random

\* C39 witness: six weapons were asked of a pool of five: the call returned
\* the five, the legendary one first and the common one last
C39_Witness ==
    /\ scene.drawn.called /\ scene.drawn.returns
    /\ scene.drawn.kind = "weapons"
    /\ scene.drawn.count = MaxCount
    /\ Len(scene.drawn.selected) = 5
    /\ scene.drawn.selected[1] = "ruyi_staff"
    /\ scene.drawn.selected[5] = "golden_staff"

====
